---- MODULE Spec2Model ----
(***************************************************************************)
(* A model of the admission-list record extraction engine of               *)
(* bixos-crm-services: the parser dispatcher (parsers/dispatcher.py) and   *)
(* the format extractors (parsers/ufscar.py, fuvest.py, provao.py,         *)
(* ifsp.py, enem_usp.py), with the dimension table loader of fuvest.py.   *)
(*                                                                         *)
(* Text is modelled at character level: a Python str is a sequence of      *)
(* one-character strings.  Code points outside ASCII are written as named  *)
(* characters (NBSP, UMINUS, a_til, ...).                                  *)
(***************************************************************************)
EXTENDS Naturals, Sequences, FiniteSets

VARIABLES
    faculdade,   \* dispatcher: the identifier argument, [isNone, s]
    normOut,     \* dispatcher: [done, key], the value _norm_faculdade returned
    callOut,     \* dispatcher: outcome of importing the dispatcher and calling it
    origin,      \* dispatcher: how the identifier was written, [body, widen, cased]
    parser,      \* extractor: which extract_records_from_bytes is running
    doc,         \* extractor: the page text, a sequence of raw lines
    dimension,   \* extractor: the table _load_dimension_map returned (Fuvest)
    pc,          \* extractor: "scan" | "dedup" | "done" ("idle": not running)
    idx,         \* extractor: position of the scan loop (line or token index)
    ctx,         \* extractor: the scan loop's local variables
    records,     \* extractor: the raw emitted records, in emission order
    seen,        \* extractor: dedup loop's set of (nome, curso) keys
    deduped,     \* extractor: the list the extractor returns
    resource,    \* loader: the dimension file, [exists, rows]
    cache,       \* loader: _DIMENSION_CACHE, [set, table]
    thr,         \* loader: per thread, the position and locals of its call
    reads,       \* loader: how often the file was opened for reading
    loads,       \* loader: how often a table was parsed to the end and cached
    arg,         \* function call: the argument a helper function is applied to
    ret,         \* function call: [done, v], the value the helper returned
    call,        \* repeated extraction: which call is running (0: not repeated)
    firstOut,    \* repeated extraction: the list the first call returned
    leads_raw,       \* database: table leads_raw, key (Faculdade, Ano, Nome)
    leads_silver,    \* database: table leads_silver, key Nome
    dimension_lead,  \* database: table dimension_lead, unique on nome
    fact_crm,        \* database: table fact_crm, the events in insertion order
    clock,           \* database: the value of now()
    job,             \* pipeline: per worker, the job process_job is running
    view,            \* CRM: the row the current-status query returned last
    imports          \* database: table imports, the jobs by id

dispVars == <<faculdade, normOut, callOut, origin>>
extVars == <<parser, doc, dimension, pc, idx, ctx, records, seen, deduped>>
loadVars == <<resource, cache, thr, reads, loads>>
funVars == <<arg, ret>>
repVars == <<call, firstOut>>
dbVars == <<leads_raw, leads_silver, dimension_lead, fact_crm, clock, job, view, imports>>
auxVars == <<funVars, repVars, dbVars>>
vars == <<faculdade, normOut, callOut, origin,
          parser, doc, dimension, pc, idx, ctx, records, seen, deduped,
          resource, cache, thr, reads, loads,
          arg, ret, call, firstOut,
          leads_raw, leads_silver, dimension_lead, fact_crm, clock, job, view, imports>>

\* No helper function is being applied.
NoOut == [done |-> FALSE, v |-> <<>>]
FunIdle == arg = [kind |-> "none"] /\ ret = NoOut
RepIdle == call = 0 /\ firstOut = <<>>
\* The database is not part of the run.
DbIdle ==
    /\ leads_raw = {} /\ leads_silver = {} /\ dimension_lead = {}
    /\ fact_crm = <<>> /\ clock = 0 /\ job = <<>> /\ view = <<>>
    /\ imports = <<>>
AuxIdle == FunIdle /\ RepIdle /\ DbIdle

-----------------------------------------------------------------------------
(* Bounds of the model.                                                    *)

MaxPad == 1        \* longest run of padding whitespace around an identifier
MaxWiden == 1      \* extra spaces put into each internal whitespace run
MaxCalls == 2      \* calls of _load_dimension_map per thread

-----------------------------------------------------------------------------
(* Characters and Python str primitives.                                   *)

NBSP == "<U+00A0>"
UMINUS == "<U+2212>"
a_til == "<U+00E3>"      \* a with tilde
A_TIL == "<U+00C3>"
a_acu == "<U+00E1>"      \* a with acute
A_ACU == "<U+00C1>"
i_acu == "<U+00ED>"      \* i with acute
I_ACU == "<U+00CD>"
c_ced == "<U+00E7>"      \* c with cedilla
C_CED == "<U+00C7>"
ord_a == "<U+00AA>"      \* feminine ordinal indicator
COMB_TILDE == "<U+0303>" \* combining tilde
COMB_ACUTE == "<U+0301>" \* combining acute accent
COMB_CEDILLA == "<U+0327>" \* combining cedilla

\* str.isspace(): the whitespace characters the inputs use.
IsSpace(c) == c \in {" ", "\t", "\n", NBSP}

UpperChars == <<"A", "B", "C", "D", "E", "F", "G", "H", "I", "J", "K", "L", "M",
                "N", "O", "P", "Q", "R", "S", "T", "U", "V", "W", "X", "Y", "Z",
                A_TIL, A_ACU, C_CED, I_ACU>>
LowerChars == <<"a", "b", "c", "d", "e", "f", "g", "h", "i", "j", "k", "l", "m",
                "n", "o", "p", "q", "r", "s", "t", "u", "v", "w", "x", "y", "z",
                a_til, a_acu, c_ced, i_acu>>

LowerChar(c) ==
    IF \E k \in 1..Len(UpperChars) : UpperChars[k] = c
    THEN LowerChars[CHOOSE k \in 1..Len(UpperChars) : UpperChars[k] = c]
    ELSE c

UpperChar(c) ==
    IF \E k \in 1..Len(LowerChars) : LowerChars[k] = c
    THEN UpperChars[CHOOSE k \in 1..Len(LowerChars) : LowerChars[k] = c]
    ELSE c

\* str.lower()
StrLower(s) == [k \in 1..Len(s) |-> LowerChar(s[k])]

\* str.upper()
StrUpper(s) == [k \in 1..Len(s) |-> UpperChar(s[k])]

RECURSIVE LStrip(_)
LStrip(s) ==
    IF s # <<>> /\ IsSpace(Head(s)) THEN LStrip(Tail(s)) ELSE s

RECURSIVE RStrip(_)
RStrip(s) ==
    IF s # <<>> /\ IsSpace(s[Len(s)]) THEN RStrip(SubSeq(s, 1, Len(s) - 1)) ELSE s

\* str.strip()
StrStrip(s) == RStrip(LStrip(s))

-----------------------------------------------------------------------------
(* parsers/dispatcher.py                                                   *)

\* The extractor names the import statements of dispatcher.py bind.
ImportedNames == {"extract_ufscar", "extract_fuvest", "extract_provao", "extract_ifsp"}

\* The dict display assigned to _REGISTRY: <<alias, name of the value>>, in order.
RegistryDisplay ==
    << << <<"u", "f", "s", "c", "a", "r">>, "extract_ufscar" >>,
       << <<"f", "u", "v", "e", "s", "t">>, "extract_fuvest" >>,
       << <<"f", "u", "v", "e", "s", "t", " ", "l", "i", "s", "t", "a", " ",
            "d", "e", " ", "e", "s", "p", "e", "r", "a">>, "extract_provao" >>,
       << <<"e", "n", "e", "m", " ", "u", "s", "p">>, "extract_enem_usp" >>,
       << <<"p", "r", "o", "v", "a", "o", " ", "p", "a", "u", "l", "i", "s", "t", "a",
            " ", "(", "f", "u", "v", "e", "s", "t", ")">>, "extract_provao" >>,
       << <<"i", "f", "s", "p">>, "extract_ifsp" >> >>

RegistryKeys == {RegistryDisplay[k][1] : k \in 1..Len(RegistryDisplay)}

\* Executing the module body: the dict display evaluates every value name; a
\* name no import bound raises NameError and the module is not created.
LoadDispatcher ==
    IF \A k \in 1..Len(RegistryDisplay) : RegistryDisplay[k][2] \in ImportedNames
    THEN [ok |-> TRUE, exc |-> "none",
          registry |-> [a \in RegistryKeys |->
              RegistryDisplay[CHOOSE k \in 1..Len(RegistryDisplay) :
                                  RegistryDisplay[k][1] = a][2]]]
    ELSE [ok |-> FALSE, exc |-> "NameError", registry |-> [a \in {} |-> "none"]]

\* The characters lo..hi of s with every whitespace run replaced by one space;
\* halving the range keeps the evaluation depth logarithmic in the length.
RECURSIVE CollapseRange(_, _, _)
CollapseRange(s, lo, hi) ==
    IF lo > hi THEN <<>>
    ELSE IF lo = hi
    THEN IF IsSpace(s[lo])
         THEN IF lo > 1 /\ IsSpace(s[lo - 1]) THEN <<>> ELSE <<" ">>
         ELSE <<s[lo]>>
    ELSE LET mid == (lo + hi) \div 2
         IN  CollapseRange(s, lo, mid) \o CollapseRange(s, mid + 1, hi)

\* re.sub(r"\s+", " ", s): every whitespace run becomes one space.
CollapseSpaces(s) == CollapseRange(s, 1, Len(s))

\* _norm_faculdade without .lower()
NormFaculdadeNoLower(f) == StrStrip(IF f.isNone THEN <<>> ELSE f.s)

\* _norm_faculdade with internal whitespace runs collapsed as well
NormFaculdadeCollapse(f) ==
    StrLower(CollapseSpaces(StrStrip(IF f.isNone THEN <<>> ELSE f.s)))

\* _norm_faculdade: (faculdade or "").strip().lower()
NormFaculdade(f) == StrLower(StrStrip(IF f.isNone THEN <<>> ELSE f.s))

\* extract_records_from_bytes_for_faculdade, given the loaded _REGISTRY: the
\* extractor the bytes are handed to ("none": no extractor, the result is []).
DispatchFor(registry, f) ==
    LET key == NormFaculdade(f)
    IN  IF key \in DOMAIN registry
        THEN [status |-> "returned", fn |-> registry[key], exc |-> "none"]
        ELSE [status |-> "returned", fn |-> "none", exc |-> "none"]

NoCall == [status |-> "idle", fn |-> "none", exc |-> "none"]
NoNorm == [done |-> FALSE, key |-> <<>>]

\* One attempt of a caller (main.py) to import the dispatcher and route a
\* document: the import executes the module body, and only a module that
\* loaded can be called.
ImportAndCall ==
    /\ callOut.status = "idle"
    /\ callOut' = LET m == LoadDispatcher
                  IN  IF m.ok THEN DispatchFor(m.registry, faculdade)
                      ELSE [status |-> "raised", fn |-> "none", exc |-> m.exc]
    /\ UNCHANGED <<faculdade, normOut, origin>>

\* _norm_faculdade applied to the identifier.
ApplyNorm ==
    /\ ~normOut.done
    /\ normOut' = [done |-> TRUE, key |-> NormFaculdade(faculdade)]
    /\ UNCHANGED <<faculdade, callOut, origin>>

-----------------------------------------------------------------------------
(* Text helpers shared by the extractors.                                  *)

IsDigit(c) == c \in {"0", "1", "2", "3", "4", "5", "6", "7", "8", "9"}

\* [A-Z]
IsAsciiUpper(c) == \E k \in 1..26 : UpperChars[k] = c

IsLetter(c) ==
    \/ \E k \in 1..Len(UpperChars) : UpperChars[k] = c
    \/ \E k \in 1..Len(LowerChars) : LowerChars[k] = c

\* \w
IsWordChar(c) == IsLetter(c) \/ IsDigit(c) \/ c = "_" \/ c = ord_a

\* str.isdigit(), \d+
IsDigits(s) == s # <<>> /\ \A k \in 1..Len(s) : IsDigit(s[k])

StartsWith(s, p) == Len(s) >= Len(p) /\ SubSeq(s, 1, Len(p)) = p

EndsWith(s, p) == Len(s) >= Len(p) /\ SubSeq(s, Len(s) - Len(p) + 1, Len(s)) = p

MatchAt(s, k, sub) == k + Len(sub) - 1 <= Len(s) /\ SubSeq(s, k, k + Len(sub) - 1) = sub

\* sub in s
Contains(s, sub) == \E k \in 1..(Len(s) + 1) : MatchAt(s, k, sub)

RECURSIVE ReplaceRange(_, _, _, _, _)
ReplaceRange(s, a, b, lo, hi) ==
    IF lo > hi THEN <<>>
    ELSE IF lo = hi THEN (IF s[lo] = a THEN b ELSE <<s[lo]>>)
    ELSE LET mid == (lo + hi) \div 2
         IN  ReplaceRange(s, a, b, lo, mid) \o ReplaceRange(s, a, b, mid + 1, hi)

\* s.replace(a, b) for one character a and any string b
Replace(s, a, b) == ReplaceRange(s, a, b, 1, Len(s))

\* _clean_spaces: re.sub(r"\s+", " ", s.replace(NBSP, " ")).strip()
CleanSpaces(s) == StrStrip(CollapseSpaces(Replace(s, NBSP, <<" ">>)))

\* str.split(): the maximal runs of non-whitespace
RECURSIVE Words(_)
Words(s) ==
    LET t == LStrip(s)
    IN  IF t = <<>> THEN <<>>
        ELSE LET n == IF \E k \in 1..Len(t) : IsSpace(t[k])
                      THEN (CHOOSE k \in 1..Len(t) :
                                IsSpace(t[k]) /\ \A j \in 1..(k - 1) : ~IsSpace(t[j])) - 1
                      ELSE Len(t)
             IN  <<SubSeq(t, 1, n)>> \o Words(SubSeq(t, n + 1, Len(t)))

\* s.split(sep)
RECURSIVE SplitOn(_, _)
SplitOn(s, sep) ==
    IF \E k \in 1..Len(s) : MatchAt(s, k, sep)
    THEN LET k == CHOOSE k \in 1..Len(s) :
                      MatchAt(s, k, sep) /\ \A j \in 1..(k - 1) : ~MatchAt(s, j, sep)
         IN  <<SubSeq(s, 1, k - 1)>> \o SplitOn(SubSeq(s, k + Len(sep), Len(s)), sep)
    ELSE <<s>>

\* sep.join(parts)
RECURSIVE JoinWith(_, _)
JoinWith(parts, sep) ==
    IF parts = <<>> THEN <<>>
    ELSE IF Len(parts) = 1 THEN parts[1]
    ELSE parts[1] \o sep \o JoinWith(Tail(parts), sep)

DashSep == <<" ", "-", " ">>

\* A Record without its dict conversion: the four fields of every extractor.
Rec(nome, curso, tipo, periodo) ==
    [nome |-> nome, curso |-> curso, tipo |-> tipo, periodo |-> periodo]

\* The dedup loop every extractor ends with, with the seen-test dropped.
DedupStepNoSeenTest(r, sn, out) ==
    [seen |-> sn \cup {<<r.nome, r.curso>>}, deduped |-> Append(out, r)]

\* The dedup loop with a later duplicate overwriting the kept record.
DedupStepKeepLast(r, sn, out) ==
    IF <<r.nome, r.curso>> \in sn
    THEN [seen |-> sn,
          deduped |-> [k \in 1..Len(out) |->
                          IF <<out[k].nome, out[k].curso>> = <<r.nome, r.curso>>
                          THEN r ELSE out[k]]]
    ELSE [seen |-> sn \cup {<<r.nome, r.curso>>}, deduped |-> Append(out, r)]

\* One iteration of the dedup loop every extractor ends with.
DedupStepOn(r, sn, out) ==
    IF <<r.nome, r.curso>> \in sn
    THEN [seen |-> sn, deduped |-> out]
    ELSE [seen |-> sn \cup {<<r.nome, r.curso>>}, deduped |-> Append(out, r)]

\* The set of keys outlived the call that filled it.
NewSeenKept(old) == old

\* seen: set[tuple[str, str]] = set()
NewSeen(old) == {}

\* The scan loop is over: the dedup loop starts.
ScanEnd ==
    /\ pc = "scan"
    /\ idx > Len(IF parser = "fuvest" THEN ctx.tokens ELSE doc)
    /\ parser = "provao" => ctx.phase # "new"
    /\ pc' = "dedup"
    /\ idx' = 1
    /\ seen' = NewSeen(seen)
    /\ deduped' = <<>>
    /\ UNCHANGED <<parser, doc, dimension, ctx, records>>

DedupStep ==
    /\ pc = "dedup"
    /\ idx <= Len(records)
    /\ LET d == DedupStepOn(records[idx], seen, deduped)
       IN  seen' = d.seen /\ deduped' = d.deduped
    /\ idx' = idx + 1
    /\ UNCHANGED <<parser, doc, dimension, pc, ctx, records>>

\* return deduped
DedupEnd ==
    /\ pc = "dedup"
    /\ idx > Len(records)
    /\ pc' = "done"
    /\ UNCHANGED <<parser, doc, dimension, idx, ctx, records, seen, deduped>>

\* All sequences over S of length at most n.
RECURSIVE SeqsUpTo(_, _)
SeqsUpTo(S, n) ==
    IF n = 0 THEN {<<>>}
    ELSE LET shorter == SeqsUpTo(S, n - 1)
         IN  shorter \cup {Append(q, x) : q \in shorter, x \in S}
-----------------------------------------------------------------------------
(* parsers/ufscar.py                                                       *)

NomeDoCandidato == <<"N","o","m","e"," ","d","o"," ","C","a","n","d","i","d","a","t","o">>
SaoCarlosAscii == <<"s","a","o"," ","c","a","r","l","o","s">>
SaoCarlosTilde == <<"s",a_til,"o"," ","c","a","r","l","o","s">>

\* COURSE_LINE_RE.match(line): text, " - ", one word, " - ", text.  Every
\* alternative of the middle group is a run of \w, so the group is \w+.
UfscarCourseLineMatch(line) ==
    \E a \in 2..Len(line) : \E b \in (a + 3)..Len(line) :
        /\ IsSpace(line[a]) /\ line[a + 1] = "-" /\ IsSpace(line[a + 2])
        /\ \A k \in (a + 3)..b : IsWordChar(line[k])
        /\ b + 4 <= Len(line)
        /\ IsSpace(line[b + 1]) /\ line[b + 2] = "-" /\ IsSpace(line[b + 3])

\* \d{2}\*{2,}\d+ : the masked ENEM inscription
UfscarInscMatch(t) ==
    /\ Len(t) >= 5
    /\ IsDigit(t[1]) /\ IsDigit(t[2])
    /\ \E a \in 4..(Len(t) - 1) :
        /\ \A k \in 3..a : t[k] = "*"
        /\ \A k \in (a + 1)..Len(t) : IsDigit(t[k])

\* [A-Z]{1,3}(?:_[A-Z]{2,5})* : the group
UfscarGrupoMatch(t) ==
    LET parts == SplitOn(t, <<"_">>)
    IN  /\ Len(parts[1]) \in 1..3
        /\ \A k \in 1..Len(parts) :
            /\ \A j \in 1..Len(parts[k]) : IsAsciiUpper(parts[k][j])
            /\ k > 1 => Len(parts[k]) \in 2..5

\* \d{1,3}(?:[\.,]\d{2})? : the score
UfscarNotaMatch(t) ==
    \/ Len(t) \in 1..3 /\ IsDigits(t)
    \/ /\ Len(t) \in 4..6
       /\ IsDigits(SubSeq(t, 1, Len(t) - 3))
       /\ t[Len(t) - 2] \in {".", ","}
       /\ IsDigit(t[Len(t) - 1]) /\ IsDigit(t[Len(t)])

\* ROW_RE.match(line) on a cleaned line: the inscription, the name, the
\* group and the score are separated by whitespace and the score ends the
\* line, so the group and the score are the last two words.
UfscarRowMatch(line) ==
    LET w == Words(line)
    IN  /\ Len(w) >= 4
        /\ UfscarInscMatch(w[1])
        /\ UfscarGrupoMatch(w[Len(w) - 1])
        /\ UfscarNotaMatch(w[Len(w)])

\* m.group("nome")
UfscarRowNome(line) ==
    LET w == Words(line) IN JoinWith(SubSeq(w, 2, Len(w) - 2), <<" ">>)

\* FOOTER_RE.search(line), case-insensitive
UfscarFooterMatch(line) ==
    LET l == StrLower(line)
        w == Words(l)
    IN  \/ StartsWith(l, <<"e","m","i","t","i","d","o"," ","e","m",":">>)
        \/ /\ Len(w) >= 4
           /\ w[1] \in { <<"p","a","g","i","n","a">>, <<"p",a_acu,"g","i","n","a">> }
           /\ IsDigits(w[2])
           /\ w[3] = <<"d","e">>
           /\ IsDigit(w[4][1])

\* HEADER_SKIP_RE.search(line), case-insensitive
UfscarHeaderSkipMatch(line) ==
    LET l == StrLower(line)
        w == Words(l)
    IN  \/ \E c \in {"c", c_ced} : \E a \in {"a", a_til} :
              StartsWith(l, <<"c","o","n","v","o","c","a">> \o <<c, a, "o">>)
        \/ StartsWith(l, <<"p","r","o","c","e","s","s","o"," ","s","e","l","e","t","i","v","o">>)
        \/ StartsWith(l, <<"u","f","s","c","a","r">>)
        \/ /\ Len(w) >= 2
           /\ Len(w[1]) >= 2
           /\ IsDigits(SubSeq(w[1], 1, Len(w[1]) - 1))
           /\ w[1][Len(w[1])] = ord_a
           /\ StartsWith(w[2], <<"c","h","a","m","a","d","a">>)
        \/ /\ Len(w) >= 5
           /\ w[1] = <<"i","n","s","c",".">>
           /\ w[2] = <<"e","n","e","m">>
           /\ w[3] = <<"n","o","m","e">>
           /\ w[4] = <<"d","o">>
           /\ StartsWith(w[5], <<"c","a","n","d","i","d","a","t","o">>)

\* split_course_section with the 3-segment branch taking parts[1] as periodo
SplitCourseSectionSwapped(course_section) ==
    LET raw == SplitOn(course_section, DashSep)
        parts == [k \in 1..Len(raw) |-> CleanSpaces(raw[k])]
    IN  IF Len(parts) >= 4
        THEN [curso |-> parts[1], tipo |-> parts[2], periodo |-> parts[3],
              campus |-> JoinWith(SubSeq(parts, 4, Len(parts)), DashSep)]
        ELSE IF Len(parts) >= 3
        THEN [curso |-> parts[1], tipo |-> parts[3], periodo |-> parts[2],
              campus |-> <<>>]
        ELSE [curso |-> CleanSpaces(course_section), tipo |-> <<>>,
              periodo |-> <<>>, campus |-> <<>>]

\* split_course_section
SplitCourseSection(course_section) ==
    LET raw == SplitOn(course_section, DashSep)
        parts == [k \in 1..Len(raw) |-> CleanSpaces(raw[k])]
    IN  IF Len(parts) >= 4
        THEN [curso |-> parts[1], tipo |-> parts[2], periodo |-> parts[3],
              campus |-> JoinWith(SubSeq(parts, 4, Len(parts)), DashSep)]
        ELSE IF Len(parts) >= 3
        THEN [curso |-> parts[1], tipo |-> parts[2], periodo |-> parts[3],
              campus |-> <<>>]
        ELSE [curso |-> CleanSpaces(course_section), tipo |-> <<>>,
              periodo |-> <<>>, campus |-> <<>>]

\* _is_sao_carlos_campus of ufscar.py
UfscarIsSaoCarlosCampus(campus) ==
    LET c == StrLower(CleanSpaces(campus))
    IN  Contains(c, SaoCarlosTilde) \/ Contains(c, SaoCarlosAscii)

\* The campus test of the scan loop, ignoring the campus segment.
UfscarCampusDropsNever(campus) == FALSE

\* The campus test of the scan loop: "if campus and not _is_sao_carlos_campus"
UfscarCampusDrops(campus) == campus # <<>> /\ ~UfscarIsSaoCarlosCampus(campus)

\* The body of the scan loop for one raw line: the new current_course and
\* the records appended.  current_course = <<>> stands for None.
UfscarLine(raw_line, current_course) ==
    LET line == CleanSpaces(raw_line)
        same == [current_course |-> current_course, emit |-> <<>>]
    IN  IF line = <<>> THEN same
        ELSE IF UfscarFooterMatch(line) THEN same
        ELSE IF UfscarHeaderSkipMatch(line) THEN same
        ELSE IF UfscarCourseLineMatch(line) /\ ~Contains(line, NomeDoCandidato)
        THEN [current_course |-> line, emit |-> <<>>]
        ELSE IF UfscarRowMatch(line) /\ current_course # <<>>
        THEN LET nome == CleanSpaces(UfscarRowNome(line))
                 sec == SplitCourseSection(current_course)
             IN  IF UfscarCampusDrops(sec.campus) THEN same
                 ELSE [current_course |-> current_course,
                       emit |-> <<Rec(nome, sec.curso, sec.tipo, sec.periodo)>>]
        ELSE same

UfscarScanLine ==
    /\ parser = "ufscar"
    /\ pc = "scan"
    /\ idx <= Len(doc)
    /\ LET r == UfscarLine(doc[idx], ctx.current_course)
       IN  /\ ctx' = [current_course |-> r.current_course]
           /\ records' = records \o r.emit
    /\ idx' = idx + 1
    /\ UNCHANGED <<parser, doc, dimension, pc, seen, deduped>>

(* Page text handed to the UFSCar extractor.                               *)

MaxUfscarLines == 3

U_Header3 ==
    <<"D","i","r","e","i","t","o"," ","-"," ","B","a","c","h","a","r","e",
      "l","a","d","o"," ","-"," ","I","n","t","e","g","r","a","l">>

U_Header3b ==
    <<"D","i","r","e","i","t","o"," ","-"," ","L","i","c","e","n","c","i",
      "a","t","u","r","a"," ","-"," ","N","o","t","u","r","n","o">>

U_HeaderRP ==
    <<"D","i","r","e","i","t","o"," ","-"," ","B","a","c","h","a","r","e",
      "l","a","d","o"," ","-"," ","I","n","t","e","g","r","a","l"," ","-",
      " ","C","a","m","p","u","s"," ","R","i","b","e","i","r",a_til,"o"," ",
      "P","r","e","t","o">>

U_HeaderSC ==
    <<"F","i","s","i","c","a"," ","-"," ","B","a","c","h","a","r","e","l",
      "a","d","o"," ","-"," ","I","n","t","e","g","r","a","l"," ","-"," ",
      "C","A","M","P","U","S"," ","S","A","O"," ","C","A","R","L","O","S">>

U_Row1 ==
    <<"0","1","*","*","1","2","3","4","5","6","7"," ","J","O","A","O"," ",
      "D","A"," ","S","I","L","V","A"," ","A","C"," ","7","5","0">>

U_Row2 ==
    <<"0","2","*","*","7","6","5","4","3","2","1"," "," ","A","N","A",NBSP,
      "L","I","M","A"," ","L","_","P","P","I"," ","7","0",",","5","0"," ">>

U_Skip ==
    <<"U","F","S","C","a","r"," ","-"," ","C","h","a","m","a","d","a"," ",
      "-"," ","R","e","g","u","l","a","r">>

UfscarLines == {U_Header3, U_Header3b, U_HeaderRP, U_HeaderSC, U_Row1, U_Row2, U_Skip}

\* A longer page: a candidate under a filtered header, then the same
\* candidate under a Sao Carlos header.
UfscarScenarios == {<<U_HeaderRP, U_Row1, U_HeaderSC, U_Row1>>}

UfscarInit ==
    /\ parser = "ufscar"
    /\ doc \in SeqsUpTo(UfscarLines, MaxUfscarLines) \cup UfscarScenarios
    /\ dimension = <<>>
    /\ pc = "scan"
    /\ idx = 1
    /\ ctx = [current_course |-> <<>>]
    /\ records = <<>>
    /\ seen = {}
    /\ deduped = <<>>
-----------------------------------------------------------------------------
(* parsers/fuvest.py                                                       *)

W_NomeCpfCurso == <<"N","O","M","E"," ","C","P","F"," ","C","U","R","S","O">>

W_Medicina == <<"M","e","d","i","c","i","n","a">>

W_B == <<"B">>

W_L == <<"L">>

W_Integral == <<"I","n","t","e","g","r","a","l">>

W_Noturno == <<"N","o","t","u","r","n","o">>

Code10921 == <<"1","0","9","-","2","1">>

Code51325 == <<"5","1","3","-","2","5">>

IsDash(c) == c \in {"-", UMINUS}

\* CPF_RE.match(tok): ^\d{3}\.\d{3}$
CpfMatch(tok) ==
    /\ Len(tok) = 7
    /\ IsDigits(SubSeq(tok, 1, 3)) /\ tok[4] = "." /\ IsDigits(SubSeq(tok, 5, 7))

\* CODE_FULL_RE.match(s): ^\d{3}[\--]\d{2}$, the dash ASCII or U+2212
CodeFullMatch(s) ==
    /\ Len(s) = 6
    /\ IsDigits(SubSeq(s, 1, 3)) /\ IsDash(s[4]) /\ IsDigits(SubSeq(s, 5, 6))

\* s.replace(sub, "") for a non-empty sub
RECURSIVE RemoveSub(_, _)
RemoveSub(s, sub) ==
    IF s = <<>> THEN <<>>
    ELSE IF MatchAt(s, 1, sub) THEN RemoveSub(SubSeq(s, Len(sub) + 1, Len(s)), sub)
    ELSE <<Head(s)>> \o RemoveSub(Tail(s), sub)

\* s.strip(chars)
RECURSIVE StripChars(_, _)
StripChars(s, chars) ==
    IF s # <<>> /\ Head(s) \in chars THEN StripChars(Tail(s), chars)
    ELSE IF s # <<>> /\ s[Len(s)] \in chars
    THEN StripChars(SubSeq(s, 1, Len(s) - 1), chars)
    ELSE s

\* _clean_name
CleanName(raw) ==
    RemoveSub(StrStrip(CollapseSpaces(Replace(raw, NBSP, <<" ">>))), <<".", ".", ".">>)

NoCode == [ok |-> FALSE, code |-> <<>>]

\* _normalize_code: the code, or None (ok = FALSE)
NormalizeCode(raw) ==
    LET code == StripChars(StrStrip(Replace(raw, UMINUS, <<"-">>)), {".", ",", ";", " "})
    IN  IF CodeFullMatch(code) THEN [ok |-> TRUE, code |-> code] ELSE NoCode

\* _consume_code: (normalized code, tokens consumed after the CPF token).
\* start is the 1-based position of the first token after the CPF token.
ConsumeCode(tokens, start) ==
    IF start > Len(tokens) THEN [code |-> NoCode, consumed |-> 0]
    ELSE
    LET first == tokens[start]
        next_token == IF start + 1 <= Len(tokens) THEN tokens[start + 1] ELSE <<>>
        merge ==
            \/ /\ ~Contains(first, <<UMINUS>>) /\ ~Contains(first, <<"-">>)
               /\ StartsWith(next_token, <<UMINUS>>)
            \/ /\ Len(first) = 5 /\ IsDigits(SubSeq(first, 1, 3)) /\ IsDash(first[4])
               /\ IsDigit(first[5])
               /\ IsDigits(next_token)
            \/ /\ Len(first) = 4 /\ IsDigits(SubSeq(first, 1, 3)) /\ IsDash(first[4])
               /\ IsDigits(next_token)
    IN  IF merge
        THEN [code |-> NormalizeCode(first \o next_token), consumed |-> 2]
        ELSE [code |-> NormalizeCode(first), consumed |-> 1]

\* The tokens of the page text: every line but the "NOME CPF CURSO" headers,
\* split on whitespace.
RECURSIVE FuvestTokens(_)
FuvestTokens(lines) ==
    IF lines = <<>> THEN <<>>
    ELSE (IF StartsWith(StrUpper(StrStrip(Head(lines))), W_NomeCpfCurso)
          THEN <<>> ELSE Words(Head(lines)))
         \o FuvestTokens(Tail(lines))

\* The join of the token loop with a missing code joined to the first row
\* of the table instead of being dropped.
FuvestJoinNoMembership(nome, code, dim) ==
    IF nome # <<>> /\ code.ok
    THEN LET row == IF code.code \in DOMAIN dim THEN dim[code.code]
                    ELSE [curso |-> W_Medicina, tipo |-> W_B, periodo |-> W_Integral]
         IN  <<Rec(nome, row.curso, row.tipo, row.periodo)>>
    ELSE <<>>

\* The join of the token loop: "if nome and code and code in dimension".
FuvestJoin(nome, code, dim) ==
    IF nome # <<>> /\ code.ok /\ code.code \in DOMAIN dim
    THEN LET row == dim[code.code]
         IN  <<Rec(nome, row.curso, row.tipo, row.periodo)>>
    ELSE <<>>

\* dimension = _load_dimension_map(), then the page text is tokenized.
FuvestTokenize ==
    /\ parser = "fuvest"
    /\ pc = "read"
    /\ ctx' = [tokens |-> FuvestTokens(doc), name_tokens |-> <<>>]
    /\ pc' = "scan"
    /\ idx' = 1
    /\ UNCHANGED <<parser, doc, dimension, records, seen, deduped>>

\* One iteration of the token loop.
FuvestScanToken ==
    /\ parser = "fuvest"
    /\ pc = "scan"
    /\ idx <= Len(ctx.tokens)
    /\ LET tok == ctx.tokens[idx]
       IN  IF CpfMatch(tok)
           THEN LET nome == CleanName(JoinWith(ctx.name_tokens, <<" ">>))
                    c == ConsumeCode(ctx.tokens, idx + 1)
                IN  /\ records' = records \o FuvestJoin(nome, c.code, dimension)
                    /\ ctx' = [ctx EXCEPT !.name_tokens = <<>>]
                    /\ idx' = idx + c.consumed + 1
           ELSE /\ ctx' = [ctx EXCEPT !.name_tokens = Append(@, tok)]
                /\ records' = records
                /\ idx' = idx + 1
    /\ UNCHANGED <<parser, doc, dimension, pc, seen, deduped>>

(* Page text and dimension tables handed to the Fuvest extractor.          *)

MaxFuvestLines == 2

F_Full ==
    <<"A","N","A"," ","L","I","M","A"," ","1","2","3",".","4","5","6"," ",
      "1","0","9","-","2","1">>

F_FullU ==
    <<"A","N","A"," ","L","I","M","A"," ","1","2","3",".","4","5","6"," ",
      "1","0","9",UMINUS,"2","1">>

F_SplitU == <<"B","I","A"," ","1","2","3",".","4","5","6"," ","1","0","9"," ",
      UMINUS,"2","1">>

F_SplitA == <<"B","I","A"," ","1","2","3",".","4","5","6"," ","1","0","9"," ","-",
      "2","1">>

F_LastA ==
    <<"A","N","A"," ","L","I","M","A"," ","1","2","3",".","4","5","6"," ",
      "1","0","9","-","2"," ","1">>

F_LastU == <<"B","I","A"," ","1","2","3",".","4","5","6"," ","1","0","9",UMINUS,
      "2"," ","1">>

F_DashA == <<"C","A","I","O"," ","1","2","3",".","4","5","6"," ","1","0","9","-",
      " ","2","1">>

F_DashU == <<"C","A","I","O"," ","1","2","3",".","4","5","6"," ","1","0","9",
      UMINUS," ","2","1">>

F_Other ==
    <<"A","N","A"," ","L","I","M","A"," ","1","2","3",".","4","5","6"," ",
      "5","1","3","-","2","5">>

F_NoCode == <<"B","I","A"," ","1","2","3",".","4","5","6">>

F_Header ==
    <<" ","n","o","m","e"," ","c","p","f"," ","c","u","r","s","o"," ","c",
      "a","r","r","e","i","r","a">>

FuvestLines ==
    {F_Full, F_FullU, F_SplitU, F_SplitA, F_LastA, F_LastU, F_DashA, F_DashU,
     F_Other, F_NoCode, F_Header}

Row10921 == [curso |-> W_Medicina, tipo |-> W_B, periodo |-> W_Integral]
Row51325 == [curso |-> W_Medicina, tipo |-> W_L, periodo |-> W_Noturno]

DimensionTables ==
    { [c \in {Code10921} |-> Row10921],
      [c \in {Code10921, Code51325} |-> IF c = Code10921 THEN Row10921 ELSE Row51325],
      [c \in {} |-> Row10921] }

FuvestInit ==
    /\ parser = "fuvest"
    /\ doc \in SeqsUpTo(FuvestLines, MaxFuvestLines)
    /\ dimension \in DimensionTables
    /\ pc = "read"
    /\ idx = 1
    /\ ctx = [tokens |-> <<>>, name_tokens |-> <<>>]
    /\ records = <<>>
    /\ seen = {}
    /\ deduped = <<>>
-----------------------------------------------------------------------------
(* parsers/fuvest.py: _load_dimension_map and its module-level cache.      *)
(* The file is modelled as the rows csv.DictReader yields: one dict per    *)
(* row, keyed by the header's column names, a cell missing from a short    *)
(* row being None.                                                         *)

Threads == {"t1", "t2"}

\* A cell of a row: a str, or None.
Cell(s) == [isNone |-> FALSE, s |-> s]
NoCell == [isNone |-> TRUE, s |-> <<>>]

\* row.get(k, "")
RowGet(row, k) == IF k \in DOMAIN row THEN row[k] ELSE Cell(<<>>)

EmptyTable == [c \in {} |-> [curso |-> <<>>, tipo |-> <<>>, periodo |-> <<>>]]
NoCache == [set |-> FALSE, table |-> EmptyTable]

\* "if _DIMENSION_CACHE is not None" read as a truthiness test
CacheHitTruthy(c) == c.set /\ DOMAIN c.table # {}

\* if _DIMENSION_CACHE is not None
CacheHit(c) == c.set

\* path.open of a missing file read as an empty file
OpenResourceLenient(res) == [ok |-> TRUE, exc |-> "none"]

\* path.open("r", ...): a missing file raises FileNotFoundError
OpenResource(res) ==
    IF res.exists THEN [ok |-> TRUE, exc |-> "none"]
    ELSE [ok |-> FALSE, exc |-> "FileNotFoundError"]

\* mapping[codigo] = ... keeping the entry a code already has
StoreRowKeepFirst(mapping, codigo, entry) ==
    [c \in DOMAIN mapping \cup {codigo} |->
        IF c \in DOMAIN mapping THEN mapping[c] ELSE entry]

\* mapping[codigo] = DimensionRow(...)
StoreRow(mapping, codigo, entry) ==
    [c \in DOMAIN mapping \cup {codigo} |-> IF c = codigo THEN entry ELSE mapping[c]]

\* The loop body for one row: None.strip() raises AttributeError, a row with
\* an empty CODIGO is skipped, any other row is stored under its code.
ProcessRow(mapping, row) ==
    LET codigo == RowGet(row, "CODIGO")
        curso == RowGet(row, "CURSO")
        tipo == RowGet(row, "TIPO")
        periodo == RowGet(row, "PERIODO")
        raised == [ok |-> FALSE, exc |-> "AttributeError", mapping |-> mapping]
    IN  IF codigo.isNone THEN raised
        ELSE IF StrStrip(codigo.s) = <<>>
        THEN [ok |-> TRUE, exc |-> "none", mapping |-> mapping]
        ELSE IF curso.isNone \/ tipo.isNone \/ periodo.isNone THEN raised
        ELSE [ok |-> TRUE, exc |-> "none",
              mapping |-> StoreRow(mapping, StrStrip(codigo.s),
                                   [curso |-> StrStrip(curso.s), tipo |-> StrStrip(tipo.s),
                                    periodo |-> StrStrip(periodo.s)])]

\* The loop fills the module-level dict in place.
CacheAfterRowShared(c, mapping) == [set |-> TRUE, table |-> mapping]

\* The loop fills the local mapping: the module-level cache is not touched.
CacheAfterRow(c, mapping) == c

IdleThread ==
    [pc |-> "idle", calls |-> 0, via |-> "direct", extract |-> "none",
     mapping |-> EmptyTable, k |-> 0, ret |-> EmptyTable, exc |-> "none"]

\* Is the call of thread t over (or not begun)?
AtRest(t) == thr[t].pc \in {"idle", "returned", "raised"}

\* Thread t calls _load_dimension_map, directly or as the first statement of
\* the Fuvest extract_records_from_bytes.
LoadCall(t) ==
    /\ AtRest(t)
    /\ thr[t].calls < MaxCalls
    /\ \E v \in {"direct", "extract"} :
          thr' = [thr EXCEPT ![t] =
                     [@ EXCEPT !.pc = "check", !.calls = @ + 1, !.via = v,
                               !.extract = IF v = "extract" THEN "running" ELSE "none",
                               !.mapping = EmptyTable, !.k = 0, !.ret = EmptyTable,
                               !.exc = "none"]]
    /\ UNCHANGED <<resource, cache, reads, loads>>

\* The same call with no other call in flight.
LoadCallSequential(t) ==
    /\ \A u \in Threads \ {t} : AtRest(u)
    /\ LoadCall(t)

\* if _DIMENSION_CACHE is not None: return _DIMENSION_CACHE
LoadCheck(t) ==
    /\ thr[t].pc = "check"
    /\ thr' = [thr EXCEPT ![t] =
                  IF CacheHit(cache)
                  THEN [@ EXCEPT !.pc = "returned", !.ret = cache.table,
                                 !.extract = IF @ = "running" THEN "loaded" ELSE @]
                  ELSE [@ EXCEPT !.pc = "open"]]
    /\ UNCHANGED <<resource, cache, reads, loads>>

\* mapping = {}; with path.open(...) as f: reader = csv.DictReader(f)
LoadOpen(t) ==
    /\ thr[t].pc = "open"
    /\ LET o == OpenResource(resource)
       IN  IF o.ok
           THEN /\ thr' = [thr EXCEPT ![t] = [@ EXCEPT !.pc = "rows", !.k = 1,
                                                       !.mapping = EmptyTable]]
                /\ reads' = reads + 1
           ELSE /\ thr' = [thr EXCEPT ![t] =
                              [@ EXCEPT !.pc = "raised", !.exc = o.exc,
                                        !.extract = IF @ = "running" THEN "raised" ELSE @]]
                /\ reads' = reads
    /\ UNCHANGED <<resource, cache, loads>>

\* One iteration of "for row in reader".
LoadRow(t) ==
    /\ thr[t].pc = "rows"
    /\ thr[t].k <= Len(resource.rows)
    /\ LET r == ProcessRow(thr[t].mapping, resource.rows[thr[t].k])
       IN  IF r.ok
           THEN /\ thr' = [thr EXCEPT ![t] = [@ EXCEPT !.mapping = r.mapping, !.k = @ + 1]]
                /\ cache' = CacheAfterRow(cache, r.mapping)
           ELSE /\ thr' = [thr EXCEPT ![t] =
                              [@ EXCEPT !.pc = "raised", !.exc = r.exc,
                                        !.extract = IF @ = "running" THEN "raised" ELSE @]]
                /\ cache' = cache
    /\ UNCHANGED <<resource, reads, loads>>

\* _DIMENSION_CACHE = mapping; return mapping
LoadStore(t) ==
    /\ thr[t].pc = "rows"
    /\ thr[t].k > Len(resource.rows)
    /\ cache' = [set |-> TRUE, table |-> thr[t].mapping]
    /\ thr' = [thr EXCEPT ![t] =
                  [@ EXCEPT !.pc = "returned", !.ret = thr[t].mapping,
                            !.extract = IF @ = "running" THEN "loaded" ELSE @]]
    /\ loads' = loads + 1
    /\ UNCHANGED <<resource, reads>>

(* The dimension files the loader is run on.                               *)

Padded(s) == <<" ">> \o s \o <<" ">>

DictRow(codigo, curso, tipo, periodo) ==
    [c \in {"CODIGO", "CURSO", "TIPO", "PERIODO"} |->
        CASE c = "CODIGO" -> codigo [] c = "CURSO" -> curso
          [] c = "TIPO" -> tipo [] OTHER -> periodo]

DictRowB == DictRow(Cell(Padded(Code10921)), Cell(Padded(W_Medicina)), Cell(W_B), Cell(W_Integral))
DictRowL == DictRow(Cell(Code51325), Cell(W_Medicina), Cell(W_L), Cell(W_Noturno))
DictRowAgain == DictRow(Cell(Code10921), Cell(W_Medicina), Cell(W_L), Cell(W_Noturno))

\* Restriction of a row to some of the columns, with CODIGO renamed.
RowWithout(row, cols) == [c \in DOMAIN row \ cols |-> row[c]]
RowRenamed(row) ==
    [c \in (DOMAIN row \ {"CODIGO"}) \cup {"CODE"} |->
        IF c = "CODE" THEN row["CODIGO"] ELSE row[c]]

ResourceMissing == [exists |-> FALSE, rows |-> <<>>]
ResourceEmpty == [exists |-> TRUE, rows |-> <<>>]
ResourceWellFormed == [exists |-> TRUE, rows |-> <<DictRowB, DictRowL>>]
ResourceDuplicate == [exists |-> TRUE, rows |-> <<DictRowB, DictRowL, DictRowAgain>>]
ResourceNoCodigoColumn == [exists |-> TRUE, rows |-> <<RowRenamed(DictRowB)>>]
ResourceEmptyCodigo ==
    [exists |-> TRUE,
     rows |-> <<DictRow(Cell(<<" ">>), Cell(W_Medicina), Cell(W_B), Cell(W_Integral)), DictRowL>>]
ResourceNoTipoPeriodoColumns ==
    [exists |-> TRUE, rows |-> <<RowWithout(DictRowB, {"TIPO", "PERIODO"})>>]
ResourceShortRow ==
    [exists |-> TRUE,
     rows |-> <<DictRowB, DictRow(Cell(Code51325), Cell(W_Medicina), NoCell, NoCell)>>]

Resources ==
    {ResourceMissing, ResourceEmpty, ResourceWellFormed, ResourceDuplicate,
     ResourceNoCodigoColumn, ResourceEmptyCodigo, ResourceNoTipoPeriodoColumns,
     ResourceShortRow}

LoadInit ==
    /\ resource \in Resources
    /\ cache = NoCache
    /\ thr = [t \in Threads |-> IdleThread]
    /\ reads = 0
    /\ loads = 0

LoadIdle ==
    /\ resource = ResourceMissing
    /\ cache = NoCache
    /\ thr = [t \in Threads |-> IdleThread]
    /\ reads = 0
    /\ loads = 0
-----------------------------------------------------------------------------
(* parsers/ifsp.py                                                         *)

NoMatch == [ok |-> FALSE]

LowerWords(w) == [k \in 1..Len(w) |-> StrLower(w[k])]

JoinWords(w, a, b) == JoinWith(SubSeq(w, a, b), <<" ">>)

\* HEADER_RE.search(line), case-insensitive, on a cleaned line with words w:
\*   Campus\s+S[a~a]o\s+Carlos\s+-\s+(tipo: [^-]+?)\s+em\s+(curso: .+?)\s+-\s+(periodo: .+)$
\* matched at word k ("...Campus"), with "em" at word e and the closing
\* dash at word m.
IfspHeaderAt(w, k, e, m) ==
    LET lw == LowerWords(w)
    IN  /\ k + 3 < e /\ e + 1 < m /\ m < Len(w)
        /\ EndsWith(lw[k], <<"c","a","m","p","u","s">>)
        /\ lw[k + 1] \in { <<"s","a","o">>, <<"s",a_til,"o">> }
        /\ lw[k + 2] = <<"c","a","r","l","o","s">>
        /\ w[k + 3] = <<"-">>
        /\ \A j \in (k + 4)..(e - 1) : ~Contains(w[j], <<"-">>)
        /\ lw[e] = <<"e","m">>
        /\ w[m] = <<"-">>

\* The leftmost match, each lazy group as short as possible.
IfspHeaderMatch(line) ==
    LET w == Words(line)
        n == Len(w)
        Matches == {x \in (1..n) \X (1..n) \X (1..n) : IfspHeaderAt(w, x[1], x[2], x[3])}
    IN  IF Matches = {} THEN [ok |-> FALSE, tipo |-> <<>>, curso |-> <<>>, periodo |-> <<>>]
        ELSE LET x == CHOOSE x \in Matches : \A y \in Matches :
                          \/ x[1] < y[1]
                          \/ x[1] = y[1] /\ x[2] < y[2]
                          \/ x[1] = y[1] /\ x[2] = y[2] /\ x[3] <= y[3]
             IN  [ok |-> TRUE,
                  tipo |-> JoinWords(w, x[1] + 4, x[2] - 1),
                  curso |-> JoinWords(w, x[2] + 1, x[3] - 1),
                  periodo |-> JoinWords(w, x[3] + 1, n)]

\* \d{2}/\d{2}/\d{4}
DateMatch(t) ==
    /\ Len(t) = 10
    /\ IsDigits(SubSeq(t, 1, 2)) /\ t[3] = "/" /\ IsDigits(SubSeq(t, 4, 5))
    /\ t[6] = "/" /\ IsDigits(SubSeq(t, 7, 10))

\* CANDIDATE_RE.match(line): ^\d{12}\s+(nome: .+?)\s+\d{2}/\d{2}/\d{4}\s+\d
\* with the date at word m.
IfspCandidateAt(w, m) ==
    /\ 3 <= m /\ m < Len(w)
    /\ Len(w[1]) = 12 /\ IsDigits(w[1])
    /\ DateMatch(w[m])
    /\ IsDigit(w[m + 1][1])

IfspCandidateMatch(line) ==
    LET w == Words(line)
        Ms == {m \in 1..Len(w) : IfspCandidateAt(w, m)}
    IN  IF Ms = {} THEN [ok |-> FALSE, nome |-> <<>>]
        ELSE LET m == CHOOSE m \in Ms : \A j \in Ms : m <= j
             IN  [ok |-> TRUE, nome |-> JoinWords(w, 2, m - 1)]

\* The body of the scan loop for one raw line.
IfspLine(raw_line, c) ==
    LET line == CleanSpaces(raw_line)
        same == [ctx |-> c, emit |-> <<>>]
        h == IfspHeaderMatch(line)
        cand == IfspCandidateMatch(line)
    IN  IF line = <<>> THEN same
        ELSE IF c.curso = <<>> /\ h.ok
        THEN [ctx |-> [curso |-> CleanSpaces(h.curso), tipo |-> CleanSpaces(h.tipo),
                       periodo |-> CleanSpaces(h.periodo)],
              emit |-> <<>>]
        ELSE IF cand.ok /\ c.curso # <<>>
        THEN [ctx |-> c,
              emit |-> <<Rec(CleanSpaces(cand.nome), c.curso, c.tipo, c.periodo)>>]
        ELSE same

IfspScanLine ==
    /\ parser = "ifsp"
    /\ pc = "scan"
    /\ idx <= Len(doc)
    /\ LET r == IfspLine(doc[idx], ctx)
       IN  ctx' = r.ctx /\ records' = records \o r.emit
    /\ idx' = idx + 1
    /\ UNCHANGED <<parser, doc, dimension, pc, seen, deduped>>

(* Page text handed to the IFSP extractor.                                 *)

MaxIfspLines == 3

I_Header1 ==
    <<"C","a","m","p","u","s"," ","S",a_til,"o"," ","C","a","r","l","o","s",
      " ","-"," ","T","e","c","n","o","l","o","g","i","a"," ","e","m"," ",
      "A","n","a","l","i","s","e"," ","d","e"," ","S","i","s","t","e","m",
      "a","s"," ","-"," ","N","o","t","u","r","n","o">>

I_Header2 ==
    <<"I","F","S","P"," ","C","A","M","P","U","S"," ","S","A","O"," ","C",
      "A","R","L","O","S"," ","-"," ","B","a","c","h","a","r","e","l","a",
      "d","o"," ","e","m"," ","E","n","g","e","n","h","a","r","i","a"," ",
      "-"," ","I","n","t","e","g","r","a","l">>

I_Cand1 ==
    <<"2","0","2","5","1","2","3","4","5","6","7","8"," ","J","O","A","O",
      " ","D","A"," ","S","I","L","V","A"," ","0","1","/","0","2","/","2",
      "0","0","3"," ","1">>

I_Cand2 ==
    <<"2","0","2","5","8","7","6","5","4","3","2","1"," "," ","A","N","A",
      " ","L","I","M","A"," ","1","1","/","1","2","/","2","0","0","4"," ",
      "2"," ","A","C">>

I_Noise == <<"L","i","s","t","a"," ","d","e"," ","C","o","n","v","o","c","a","d",
      "o","s">>

IfspLines == {I_Header1, I_Header2, I_Cand1, I_Cand2, I_Noise}

IfspInit ==
    /\ parser = "ifsp"
    /\ doc \in SeqsUpTo(IfspLines, MaxIfspLines)
    /\ dimension = <<>>
    /\ pc = "scan"
    /\ idx = 1
    /\ ctx = [curso |-> <<>>, tipo |-> <<>>, periodo |-> <<>>]
    /\ records = <<>>
    /\ seen = {}
    /\ deduped = <<>>
-----------------------------------------------------------------------------
(* parsers/enem_usp.py                                                     *)

\* HEADER_SKIP_RE.match(line), case-insensitive
EnemHeaderSkipMatch(line) ==
    LET w == LowerWords(Words(line))
    IN  \/ /\ Len(w) >= 3
           /\ w[1] = <<"e","n","e","m">> /\ w[2] = <<"u","s","p">>
           /\ IsDigit(w[3][1])
        \/ /\ Len(w) >= 5
           /\ w[1] = <<"c","h","a","m","a","d","o","s">>
           /\ w[2] = <<"p","a","r","a">>
           /\ w[3] = <<"a">>
           /\ w[4] = <<"p","r","i","m","e","i","r","a">>
           /\ \E i \in {"i", i_acu} :
                 StartsWith(w[5], <<"m","a","t","r",i,"c","u","l","a">>)
        \/ /\ Len(w) >= 2
           /\ w[1] = <<"p","r","o","c","e","s","s","a","m","e","n","t","o">>
           /\ StartsWith(w[2], <<"r","e","a","l","i","z","a","d","o">>)

\* The closing parenthesis of the group opened at position p, if any.
FirstClose(line, p) ==
    IF \E c \in (p + 1)..Len(line) : line[c] = ")"
    THEN CHOOSE c \in (p + 1)..Len(line) :
             line[c] = ")" /\ \A j \in (p + 1)..(c - 1) : line[j] # ")"
    ELSE 0

\* COURSE_RE.match(line) on a cleaned line, the first dash at position a + 1:
\*   ^(curso: .+?)\s+[dash]\s+\((tipo: [^)]+)\)\s+[dash]\s+(periodo: .+)$
EnemCourseAt(line, a) ==
    /\ a >= 2 /\ a + 3 <= Len(line)
    /\ IsSpace(line[a]) /\ IsDash(line[a + 1]) /\ IsSpace(line[a + 2])
    /\ line[a + 3] = "("
    /\ LET c == FirstClose(line, a + 3)
       IN  /\ c > a + 4
           /\ c + 4 <= Len(line)
           /\ IsSpace(line[c + 1]) /\ IsDash(line[c + 2]) /\ IsSpace(line[c + 3])

EnemCourseMatch(line) ==
    LET As == {a \in 1..Len(line) : EnemCourseAt(line, a)}
    IN  IF As = {} THEN [ok |-> FALSE, curso |-> <<>>, tipo |-> <<>>, periodo |-> <<>>]
        ELSE LET a == CHOOSE a \in As : \A b \in As : a <= b
                 c == FirstClose(line, a + 3)
             IN  [ok |-> TRUE,
                  curso |-> SubSeq(line, 1, a - 1),
                  tipo |-> SubSeq(line, a + 4, c - 1),
                  periodo |-> SubSeq(line, c + 4, Len(line))]

\* _is_sao_carlos_campus of enem_usp.py
EnemIsSaoCarlosCampus(text) ==
    LET c == StrLower(CleanSpaces(text))
    IN  Contains(c, SaoCarlosAscii) \/ Contains(c, SaoCarlosTilde)

\* _looks_like_institution_line
LooksLikeInstitutionLine(text) == Contains(StrLower(text), <<"u","s","p">>)

\* CANDIDATE_RE.match(line): ^\d+\s+\d{3}\.\d{3}\s+(nome: .+)$
EnemCandidateMatch(line) ==
    LET w == Words(line)
    IN  IF Len(w) >= 3 /\ IsDigits(w[1]) /\ CpfMatch(w[2])
        THEN [ok |-> TRUE, nome |-> JoinWords(w, 3, Len(w))]
        ELSE [ok |-> FALSE, nome |-> <<>>]

\* The label survived a course header.
LabelAfterCourseKept(label) == label

\* current_institution = "" on a course header
LabelAfterCourse(label) == <<>>

\* The body of the scan loop for one raw line.  current_course.ok = FALSE
\* stands for None.
EnemLine(raw_line, c) ==
    LET line == CleanSpaces(raw_line)
        same == [ctx |-> c, emit |-> <<>>]
        course == EnemCourseMatch(line)
        cand == EnemCandidateMatch(line)
    IN  IF line = <<>> THEN same
        ELSE IF EnemHeaderSkipMatch(line) THEN same
        ELSE IF course.ok
        THEN [ctx |-> [current_course |->
                           [ok |-> TRUE, curso |-> CleanSpaces(course.curso),
                            tipo |-> CleanSpaces(course.tipo),
                            periodo |-> CleanSpaces(course.periodo)],
                       current_institution |-> LabelAfterCourse(c.current_institution)],
              emit |-> <<>>]
        ELSE IF LooksLikeInstitutionLine(line)
        THEN [ctx |-> [c EXCEPT !.current_institution = line], emit |-> <<>>]
        ELSE IF cand.ok /\ c.current_course.ok
        THEN IF EnemIsSaoCarlosCampus(c.current_institution)
             THEN [ctx |-> c,
                   emit |-> <<Rec(CleanSpaces(cand.nome), c.current_course.curso,
                                  c.current_course.tipo, c.current_course.periodo)>>]
             ELSE same
        ELSE same

EnemScanLine ==
    /\ parser = "enem_usp"
    /\ pc = "scan"
    /\ idx <= Len(doc)
    /\ LET r == EnemLine(doc[idx], ctx)
       IN  ctx' = r.ctx /\ records' = records \o r.emit
    /\ idx' = idx + 1
    /\ UNCHANGED <<parser, doc, dimension, pc, seen, deduped>>

(* Page text handed to the ENEM-USP extractor.                             *)

MaxEnemLines == 3

E_Course1 ==
    <<"E","n","g","e","n","h","a","r","i","a"," ","C","i","v","i","l"," ",
      "-"," ","(","B","a","c","h","a","r","e","l","a","d","o",")"," ","-",
      " ","I","n","t","e","g","r","a","l">>

E_Course2 ==
    <<"E","n","g","e","n","h","a","r","i","a"," ","C","i","v","i","l"," ",
      UMINUS," ","(","L","i","c","e","n","c","i","a","t","u","r","a",")",
      " ",UMINUS," ","N","o","t","u","r","n","o">>

E_InstSC ==
    <<"E","s","c","o","l","a"," ","d","e"," ","E","n","g","e","n","h","a",
      "r","i","a"," ","d","e"," ","S",a_til,"o"," ","C","a","r","l","o","s",
      " ","-"," ","U","S","P">>

E_InstSP ==
    <<"E","s","c","o","l","a"," ","P","o","l","i","t","e","c","n","i","c",
      "a"," ","U","S","P"," ","-"," ","S","a","o"," ","P","a","u","l","o">>

E_Cand1 ==
    <<"1"," ","1","2","3",".","4","5","6"," ","J","O","A","O"," ","D","A",
      " ","S","I","L","V","A">>

E_Cand2 ==
    <<"2"," ","6","5","4",".","3","2","1"," ","A","N","A"," ","R","U","S",
      "P","O","L","I">>

E_Skip == <<"E","N","E","M"," ","U","S","P"," ","2","0","2","5">>

EnemLines == {E_Course1, E_Course2, E_InstSC, E_InstSP, E_Cand1, E_Cand2, E_Skip}

\* A longer page: one candidate listed under the same course twice, the
\* second time with another tipo and periodo.
EnemScenarios == {<<E_Course1, E_InstSC, E_Cand1, E_Course2, E_InstSC, E_Cand1>>}

EnemInit ==
    /\ parser = "enem_usp"
    /\ doc \in SeqsUpTo(EnemLines, MaxEnemLines) \cup EnemScenarios
    /\ dimension = <<>>
    /\ pc = "scan"
    /\ idx = 1
    /\ ctx = [current_course |-> [ok |-> FALSE, curso |-> <<>>, tipo |-> <<>>,
                                  periodo |-> <<>>],
              current_institution |-> <<>>]
    /\ records = <<>>
    /\ seen = {}
    /\ deduped = <<>>
-----------------------------------------------------------------------------
(* parsers/provao.py                                                       *)

W_ProvaoPaulista == <<"P","r","o","v",a_til,"o"," ","P","a","u","l","i","s","t","a">>

W_ListaDeConvocacao == <<"L","i","s","t","a"," ","d","e"," ","c","o","n","v","o","c","a",c_ced,
      a_til,"o">>

W_NomeDoCandidatoLower == <<"n","o","m","e"," ","d","o"," ","c","a","n","d","i","d","a","t","o">>

W_ListaDeEspera == <<"L","i","s","t","a"," ","d","e"," ","E","s","p","e","r","a">>

W_Processamento == <<"P","r","o","c","e","s","s","a","m","e","n","t","o">>

W_CampusLower == <<"c","a","m","p","u","s">>

W_USP == <<"U","S","P">>

\* _clean_spaces of provao.py
ProvaoCleanSpaces(s) ==
    StrStrip(CollapseSpaces(Replace(Replace(s, NBSP, <<" ">>), "\n", <<" ">>)))

\* unicodedata.normalize("NFKD", c) of one character
NfkdChar(c) ==
    CASE c = a_til -> <<"a", COMB_TILDE>>
      [] c = A_TIL -> <<"A", COMB_TILDE>>
      [] c = a_acu -> <<"a", COMB_ACUTE>>
      [] c = A_ACU -> <<"A", COMB_ACUTE>>
      [] c = i_acu -> <<"i", COMB_ACUTE>>
      [] c = I_ACU -> <<"I", COMB_ACUTE>>
      [] c = c_ced -> <<"c", COMB_CEDILLA>>
      [] c = C_CED -> <<"C", COMB_CEDILLA>>
      [] c = ord_a -> <<"a">>
      [] c = NBSP -> <<" ">>
      [] OTHER -> <<c>>

RECURSIVE NfkdRange(_, _, _)
NfkdRange(s, lo, hi) ==
    IF lo > hi THEN <<>>
    ELSE IF lo = hi THEN NfkdChar(s[lo])
    ELSE LET mid == (lo + hi) \div 2
         IN  NfkdRange(s, lo, mid) \o NfkdRange(s, mid + 1, hi)

\* unicodedata.normalize("NFKD", s)
Nfkd(s) == NfkdRange(s, 1, Len(s))

\* unicodedata.combining(ch) # 0
IsCombining(c) == c \in {COMB_TILDE, COMB_ACUTE, COMB_CEDILLA}

\* _is_sao_carlos_campus of provao.py
ProvaoIsSaoCarlosCampus(raw) ==
    LET c == Nfkd(StrLower(ProvaoCleanSpaces(raw)))
    IN  Contains(SelectSeq(c, LAMBDA ch : ~IsCombining(ch)), SaoCarlosAscii)

\* _is_usp_institution without the .upper()
IsUspInstitutionExact(course_blob) ==
    ProvaoCleanSpaces(SplitOn(course_blob, DashSep)[1]) = W_USP

\* _is_usp_institution
IsUspInstitution(course_blob) ==
    StrUpper(ProvaoCleanSpaces(SplitOn(course_blob, DashSep)[1])) = W_USP

\* _extract_tipo_from_curso: a trailing "(...)" is the tipo and is cut from
\* the course text.
ExtractTipoFromCurso(curso_text) ==
    LET s == RStrip(curso_text)
        n == Len(s)
        Opens == {p \in 1..n : s[p] = "(" /\ p + 1 <= n - 1
                     /\ \A j \in (p + 1)..(n - 1) : s[j] # ")"}
    IN  IF n >= 3 /\ s[n] = ")" /\ Opens # {}
        THEN LET p == CHOOSE p \in Opens : \A q \in Opens : p <= q
             IN  [curso |-> ProvaoCleanSpaces(SubSeq(s, 1, p - 1)),
                  tipo |-> ProvaoCleanSpaces(SubSeq(s, p + 1, n - 1))]
        ELSE [curso |-> ProvaoCleanSpaces(curso_text), tipo |-> <<>>]

\* _split_course_blob
SplitCourseBlob(course_blob) ==
    LET raw == SplitOn(course_blob, DashSep)
        cleaned == [k \in 1..Len(raw) |-> ProvaoCleanSpaces(raw[k])]
        parts == SelectSeq(cleaned, LAMBDA p : p # <<>>)
        n == Len(parts)
    IN  IF n = 0 THEN [curso |-> <<>>, tipo |-> <<>>, periodo |-> <<>>]
        ELSE IF n >= 4
        THEN LET curso_raw == IF n > 4 THEN JoinWith(SubSeq(parts, 3, n - 2), DashSep)
                              ELSE parts[3]
                 ct == ExtractTipoFromCurso(curso_raw)
             IN  [curso |-> ct.curso, tipo |-> ct.tipo, periodo |-> parts[n - 1]]
        ELSE IF n = 3
        THEN LET ct == ExtractTipoFromCurso(parts[2])
             IN  [curso |-> ct.curso, tipo |-> ct.tipo, periodo |-> parts[3]]
        ELSE LET ct == ExtractTipoFromCurso(JoinWith(SubSeq(parts, 2, n), DashSep))
             IN  [curso |-> ct.curso, tipo |-> ct.tipo, periodo |-> <<>>]

\* \*{3}\d{1,3}[\.,]\d{3}\*{2} matched at position p with d leading digits
MaskedIdAt(s, p, d) ==
    /\ p + d + 8 <= Len(s)
    /\ s[p] = "*" /\ s[p + 1] = "*" /\ s[p + 2] = "*"
    /\ \A j \in (p + 3)..(p + 2 + d) : IsDigit(s[j])
    /\ s[p + 3 + d] \in {".", ","}
    /\ \A j \in (p + 4 + d)..(p + 6 + d) : IsDigit(s[j])
    /\ s[p + 7 + d] = "*" /\ s[p + 8 + d] = "*"

\* MASKED_ID_RE.search(line)
MaskedIdSearch(line) == \E p \in 1..Len(line) : \E d \in 1..3 : MaskedIdAt(line, p, d)

\* The whole word is a masked id.
MaskedIdWord(t) == \E d \in 1..3 : Len(t) = d + 9 /\ MaskedIdAt(t, 1, d)

\* NEW_ROW_RE.match(row) on a cleaned row with words w, the id at word k:
\*   ^(nome: .+?)\s+(id)\s+(grupo: [A-Z])\s+(curso_blob: .+)$
NewRowAt(w, k) ==
    /\ 2 <= k /\ k + 2 <= Len(w)
    /\ MaskedIdWord(w[k])
    /\ Len(w[k + 1]) = 1 /\ IsAsciiUpper(w[k + 1][1])

NewRowMatch(row) ==
    LET w == Words(row)
        Ks == {k \in 1..Len(w) : NewRowAt(w, k)}
    IN  IF Ks = {} THEN [ok |-> FALSE, nome |-> <<>>, curso_blob |-> <<>>]
        ELSE LET k == CHOOSE k \in Ks : \A j \in Ks : k <= j
             IN  [ok |-> TRUE, nome |-> JoinWords(w, 1, k - 1),
                  curso_blob |-> JoinWords(w, k + 2, Len(w))]

\* flush_if_row of _iter_new_format_rows
FlushIfRow(rows, buffer) ==
    IF buffer = <<>> THEN [rows |-> rows, buffer |-> buffer]
    ELSE LET candidate == ProvaoCleanSpaces(JoinWith(buffer, <<" ">>))
         IN  IF NewRowMatch(candidate).ok
             THEN [rows |-> Append(rows, candidate), buffer |-> <<>>]
             ELSE [rows |-> rows, buffer |-> buffer]

\* The loop body of _iter_new_format_rows for one raw line.
NewFormatLine(raw_line, rows, buffer) ==
    LET line == ProvaoCleanSpaces(raw_line)
        same == [rows |-> rows, buffer |-> buffer]
    IN  IF line = <<>> THEN same
        ELSE IF StartsWith(line, W_ProvaoPaulista) THEN same
        ELSE IF StartsWith(line, W_ListaDeConvocacao) THEN same
        ELSE IF StartsWith(StrLower(line), W_NomeDoCandidatoLower) THEN same
        ELSE IF MaskedIdSearch(line) THEN FlushIfRow(rows, Append(buffer, line))
        ELSE IF buffer # <<>> THEN FlushIfRow(rows, Append(buffer, line))
        ELSE same

\* The best-effort flush that ends _iter_new_format_rows.
NewFormatRowsEnd(rows, buffer) ==
    IF buffer # <<>> /\ NewRowMatch(ProvaoCleanSpaces(JoinWith(buffer, <<" ">>))).ok
    THEN Append(rows, ProvaoCleanSpaces(JoinWith(buffer, <<" ">>)))
    ELSE rows

\* The record of one reconstructed row of the new format, if it is kept.
NewFormatRecord(row) ==
    LET m == NewRowMatch(row)
        nome == StrStrip(Replace(ProvaoCleanSpaces(m.nome), "*", <<>>))
        course_blob == ProvaoCleanSpaces(m.curso_blob)
        c == SplitCourseBlob(course_blob)
    IN  IF ~m.ok THEN <<>>
        ELSE IF ~IsUspInstitution(course_blob) THEN <<>>
        ELSE IF ~ProvaoIsSaoCarlosCampus(course_blob) THEN <<>>
        ELSE IF ~(nome # <<>> /\ c.curso # <<>>) THEN <<>>
        ELSE <<Rec(nome, c.curso, c.tipo, c.periodo)>>

RECURSIVE NewFormatRecords(_)
NewFormatRecords(rows) ==
    IF rows = <<>> THEN <<>>
    ELSE NewFormatRecord(Head(rows)) \o NewFormatRecords(Tail(rows))

\* POSITION_RE.match(line): ^\d+/\d+$
PositionMatch(line) ==
    \E p \in 2..(Len(line) - 1) :
        /\ line[p] = "/"
        /\ IsDigits(SubSeq(line, 1, p - 1))
        /\ IsDigits(SubSeq(line, p + 1, Len(line)))

\* NAME_LINE_RE.match(line): ^\d{1,3}\.\d{3}\s+(nome: .+)$
NameLineMatch(line) ==
    LET w == Words(line)
        ok == /\ Len(w) >= 2
              /\ Len(w[1]) \in 5..7
              /\ IsDigits(SubSeq(w[1], 1, Len(w[1]) - 4))
              /\ w[1][Len(w[1]) - 3] = "."
              /\ IsDigits(SubSeq(w[1], Len(w[1]) - 2, Len(w[1])))
    IN  IF ok THEN [ok |-> TRUE, nome |-> JoinWords(w, 2, Len(w))]
        ELSE [ok |-> FALSE, nome |-> <<>>]

IsAlnumAscii(c) ==
    IsDigit(c) \/ IsAsciiUpper(c) \/ \E k \in 1..26 : LowerChars[k] = c

\* \d+(?:/[\dA-Za-z]+)? as a whole word
PositionWord(t) ==
    \/ IsDigits(t)
    \/ \E p \in 2..(Len(t) - 1) :
          /\ t[p] = "/"
          /\ IsDigits(SubSeq(t, 1, p - 1))
          /\ \A j \in (p + 1)..Len(t) : IsAlnumAscii(t[j])

\* The rest of a legacy course line, "(" at position p of rest:
\*   (curso: .+?)\s*\((tipo: [^)]+)\)\s*-\s*(periodo: .+)$
LegacyCourseAt(rest, p) ==
    /\ p >= 2 /\ p <= Len(rest) /\ rest[p] = "("
    /\ LET c == FirstClose(rest, p)
           after == LStrip(SubSeq(rest, c + 1, Len(rest)))
       IN  /\ c > p + 1
           /\ after # <<>> /\ Head(after) = "-"
           /\ Len(after) >= 2

\* COURSE_LINE_RE.match(line) of provao.py on a cleaned line
LegacyCourseMatch(line) ==
    LET w == Words(line)
        none == [ok |-> FALSE, curso |-> <<>>, tipo |-> <<>>, periodo |-> <<>>]
    IN  IF Len(w) < 2 \/ ~PositionWord(w[1]) THEN none
        ELSE LET rest == SubSeq(line, Len(w[1]) + 2, Len(line))
                 Ps == {p \in 1..Len(rest) : LegacyCourseAt(rest, p)}
             IN  IF Ps = {} THEN none
                 ELSE LET p == CHOOSE p \in Ps : \A q \in Ps : p <= q
                          c == FirstClose(rest, p)
                          after == LStrip(SubSeq(rest, c + 1, Len(rest)))
                      IN  [ok |-> TRUE,
                           curso |-> RStrip(SubSeq(rest, 1, p - 1)),
                           tipo |-> SubSeq(rest, p + 1, c - 1),
                           periodo |-> LStrip(Tail(after))]

NoName == [ok |-> FALSE, nome |-> <<>>]
NoCourse == [ok |-> FALSE, curso |-> <<>>, tipo |-> <<>>, periodo |-> <<>>]

\* The pending name and course were reset only when a record was emitted.
CampusLineClearsOnEmit(emitted) == emitted

\* current_name = None; current_course = None after the campus test,
\* whatever its outcome.
CampusLineClears(emitted) == TRUE

\* The loop body of the legacy scan for one raw line; ok = FALSE stands
\* for None in current_name and current_course.
LegacyLine(raw_line, current_name, current_course) ==
    LET line == ProvaoCleanSpaces(raw_line)
        same == [current_name |-> current_name, current_course |-> current_course,
                 emit |-> <<>>]
        nm == NameLineMatch(line)
        cm == LegacyCourseMatch(line)
    IN  IF line = <<>> THEN same
        ELSE IF PositionMatch(line) THEN same
        ELSE IF StartsWith(line, W_ProvaoPaulista) THEN same
        ELSE IF Contains(line, W_ListaDeEspera) THEN same
        ELSE IF StartsWith(line, W_Processamento) THEN same
        ELSE IF nm.ok
        THEN [same EXCEPT !.current_name = [ok |-> TRUE, nome |-> ProvaoCleanSpaces(nm.nome)]]
        ELSE IF cm.ok
        THEN [same EXCEPT !.current_course =
                  [ok |-> TRUE, curso |-> ProvaoCleanSpaces(cm.curso),
                   tipo |-> ProvaoCleanSpaces(cm.tipo),
                   periodo |-> ProvaoCleanSpaces(cm.periodo)]]
        ELSE IF StartsWith(StrLower(line), W_CampusLower)
        THEN LET emit == IF current_name.ok /\ current_name.nome # <<>>
                            /\ current_course.ok /\ ProvaoIsSaoCarlosCampus(line)
                         THEN <<Rec(current_name.nome, current_course.curso,
                                    current_course.tipo, current_course.periodo)>>
                         ELSE <<>>
             IN  IF CampusLineClears(emit # <<>>)
                 THEN [current_name |-> NoName, current_course |-> NoCourse,
                       emit |-> emit]
                 ELSE [same EXCEPT !.emit = emit]
        ELSE same

\* The legacy scan started whatever the new-format pass produced.
RunsLegacyAlways(recs) == TRUE

\* if not records: the legacy scan runs when the new format gave nothing.
RunsLegacy(recs) == recs = <<>>

\* One line of the new-format pass (_iter_new_format_rows).
ProvaoNewLine ==
    /\ parser = "provao"
    /\ pc = "scan"
    /\ ctx.phase = "new"
    /\ idx <= Len(doc)
    /\ LET r == NewFormatLine(doc[idx], ctx.rows, ctx.buffer)
       IN  ctx' = [ctx EXCEPT !.rows = r.rows, !.buffer = r.buffer]
    /\ idx' = idx + 1
    /\ UNCHANGED <<parser, doc, dimension, pc, records, seen, deduped>>

\* The new-format pass ends: its rows are filtered into records, and the
\* legacy scan starts over the same pages if there are none.
ProvaoNewEnd ==
    /\ parser = "provao"
    /\ pc = "scan"
    /\ ctx.phase = "new"
    /\ idx > Len(doc)
    /\ LET rows == NewFormatRowsEnd(ctx.rows, ctx.buffer)
           recs == NewFormatRecords(rows)
       IN  /\ records' = recs
           /\ IF RunsLegacy(recs)
              THEN /\ ctx' = [ctx EXCEPT !.rows = rows, !.phase = "legacy"]
                   /\ idx' = 1
              ELSE /\ ctx' = [ctx EXCEPT !.rows = rows, !.phase = "finished"]
                   /\ idx' = idx
    /\ UNCHANGED <<parser, doc, dimension, pc, seen, deduped>>

\* One line of the legacy scan.
ProvaoLegacyLine ==
    /\ parser = "provao"
    /\ pc = "scan"
    /\ ctx.phase = "legacy"
    /\ idx <= Len(doc)
    /\ LET r == LegacyLine(doc[idx], ctx.current_name, ctx.current_course)
       IN  /\ ctx' = [ctx EXCEPT !.current_name = r.current_name,
                                 !.current_course = r.current_course]
           /\ records' = records \o r.emit
    /\ idx' = idx + 1
    /\ UNCHANGED <<parser, doc, dimension, pc, seen, deduped>>

(* Page text handed to the Provao extractor.                               *)

MaxProvaoLines == 3

P_RowSC ==
    <<"A","N","A"," ","L","I","M","A"," ","*","*","*","9","9","4",".","8",
      "9","8","*","*"," ","B"," ","U","S","P"," ","-"," ","9","0","0","1",
      "1","/","1","0","4"," ","-"," ","F","i","s","i","c","a"," ","(","L",
      "i","c","e","n","c","i","a","t","u","r","a",")"," ","-"," ","N","o",
      "t","u","r","n","o"," ","-"," ","I","F","S","C"," ","S",a_til,"o"," ",
      "C","a","r","l","o","s">>

P_RowUsp ==
    <<"B","I","A"," ","*","*","*","1","2",",","3","4","5","*","*"," ","A",
      " ","U","s","p"," ","-"," ","8","6","3","0","0"," ","-"," ","L","e",
      "t","r","a","s"," ","(","B","a","c","h","a","r","e","l","a","d","o",
      ")"," ","-"," ","D","i","u","r","n","o"," ","-"," ","S","A","O"," ",
      "C","A","R","L","O","S">>

P_RowHead ==
    <<"C","A","I","O"," ","*","*","*","9","9","4",".","8","9","8","*","*",
      " ","B"," ","U","S","P"," ","-"," ","9","0","0","1","1","/","1","0",
      "4"," ","-"," ","F","i","s","i","c","a"," ","(","L","i","c","e","n",
      "c","i","a","t","u","r","a",")">>

P_RowTail ==
    <<"-"," ","N","o","t","u","r","n","o"," ","-"," ","I","F","S","C"," ",
      "S",a_til,"o"," ","C","a","r","l","o","s">>

P_Name == <<"1","2",".","3","4","5"," ","J","O","A","O"," ","D","A"," ","S","I",
      "L","V","A">>

P_Course ==
    <<"3","/","1","0"," ","E","n","g","e","n","h","a","r","i","a"," ","C",
      "i","v","i","l"," ","(","B","a","c","h","a","r","e","l","a","d","o",
      ")"," ","-"," ","I","n","t","e","g","r","a","l">>

P_CampusSC ==
    <<"C","a","m","p","u","s"," ","U","S","P"," ","d","e"," ","S",a_til,"o",
      " ","C","a","r","l","o","s">>

P_CampusSP == <<"C","A","M","P","U","S"," ","B","u","t","a","n","t","a">>

ProvaoLines ==
    {P_RowSC, P_RowUsp, P_RowHead, P_RowTail, P_Name, P_Course, P_CampusSC, P_CampusSP}

\* A longer page: a row of the new format followed by a candidate in the
\* legacy format.
ProvaoScenarios == {<<P_RowSC, P_Name, P_Course, P_CampusSC>>}

ProvaoStart(docs) ==
    /\ parser = "provao"
    /\ doc \in docs
    /\ dimension = <<>>
    /\ pc = "scan"
    /\ idx = 1
    /\ ctx = [phase |-> "new", rows |-> <<>>, buffer |-> <<>>,
              current_name |-> NoName, current_course |-> NoCourse]
    /\ records = <<>>
    /\ seen = {}
    /\ deduped = <<>>

ProvaoInit == ProvaoStart(SeqsUpTo(ProvaoLines, MaxProvaoLines) \cup ProvaoScenarios)

(* Pages in the legacy format, with noise lines.                           *)

MaxLegacyLines == 3

N_Position == <<"3","/","1","0">>

N_Header == <<"P","r","o","v",a_til,"o"," ","P","a","u","l","i","s","t","a"," ","2",
      "0","2","4">>

N_Processamento == <<"P","r","o","c","e","s","s","a","m","e","n","t","o"," ","0","1","/",
      "0","2">>

N_ListaEspera == <<"2","a"," ","L","i","s","t","a"," ","d","e"," ","E","s","p","e","r",
      "a">>

LegacyLines == {P_Name, P_Course, P_CampusSC, P_CampusSP}
NoiseLines == {N_Position, N_Header, N_Processamento, N_ListaEspera}

InsertAt(s, k, x) == SubSeq(s, 1, k) \o <<x>> \o SubSeq(s, k + 1, Len(s))

\* Up to MaxLegacyLines lines of the legacy format, alone or with one noise
\* line put anywhere between them.
LegacyDocs ==
    LET core == SeqsUpTo(LegacyLines, MaxLegacyLines)
    IN  core \cup UNION { {InsertAt(s, k, n) : k \in 0..Len(s), n \in NoiseLines}
                           : s \in core }

LegacyInit == ProvaoStart(LegacyDocs)
-----------------------------------------------------------------------------
(* Identifiers handed to the dispatcher: None, or a registered alias or an *)
(* unregistered name, written with any prefix in upper case, padded with   *)
(* whitespace, and with its internal whitespace runs widened.              *)

None == [isNone |-> TRUE, s |-> <<>>]

UnknownNames == { <<>>, <<"u", "n", "i", "c", "a", "m", "p">>,
                  <<"e", "n", "e", "m">> }

UnivSaoCarlosAccented ==
    <<"u","n","i","v","e","r","s","i","d","a","d","e"," ","f","e","d","e",
      "r","a","l"," ","d","e"," ","s",a_til,"o"," ","c","a","r","l","o",
      "s">>

UnivSaoCarlosPlain ==
    <<"u","n","i","v","e","r","s","i","d","a","d","e"," ","f","e","d","e",
      "r","a","l"," ","d","e"," ","s","a","o"," ","c","a","r","l","o","s">>

\* The long name of UFSCar, with and without the accent.
UniversityNames == {UnivSaoCarlosAccented, UnivSaoCarlosPlain}

RECURSIVE Pads(_)
Pads(n) ==
    IF n = 0 THEN {<<>>}
    ELSE Pads(n - 1) \cup {<<c>> \o p : c \in {" ", "\t"}, p \in Pads(n - 1)}

UpperPrefix(s, n) == [k \in 1..Len(s) |-> IF k <= n THEN UpperChar(s[k]) ELSE s[k]]

RECURSIVE Spaces(_)
Spaces(n) == IF n = 0 THEN <<>> ELSE <<" ">> \o Spaces(n - 1)

RECURSIVE Widen(_, _)
Widen(s, w) ==
    IF s = <<>> THEN <<>>
    ELSE IF Head(s) = " " THEN Spaces(w + 1) \o Widen(Tail(s), w)
         ELSE <<Head(s)>> \o Widen(Tail(s), w)

Written(b, n, w, l, r) ==
    [f |-> [isNone |-> FALSE, s |-> l \o Widen(UpperPrefix(b, n), w) \o r],
     o |-> [body |-> b, widen |-> w, cased |-> n]]

\* The prefixes written in upper case: every prefix of a short identifier, none
\* or all of a long name.
CasedPrefixes(b) == IF b \in UniversityNames THEN {0, Len(b)} ELSE 0..Len(b)

FaculdadeInputs ==
    {[f |-> None, o |-> [body |-> <<>>, widen |-> 0, cased |-> 0]]} \cup
    UNION { {Written(b, n, w, l, r) :
                n \in CasedPrefixes(b), w \in 0..MaxWiden, l \in Pads(MaxPad), r \in Pads(MaxPad)}
            : b \in RegistryKeys \cup UnknownNames \cup UniversityNames }

DispInit ==
    /\ \E x \in FaculdadeInputs : faculdade = x.f /\ origin = x.o
    /\ normOut = NoNorm
    /\ callOut = NoCall

ExtIdle ==
    /\ parser = "none"
    /\ doc = <<>>
    /\ dimension = <<>>
    /\ pc = "idle"
    /\ idx = 0
    /\ ctx = <<>>
    /\ records = <<>>
    /\ seen = {}
    /\ deduped = <<>>

\* The pure function _norm_faculdade on every identifier.
InitNorm == DispInit /\ ExtIdle /\ LoadIdle /\ AuxIdle
NextNorm == ApplyNorm /\ UNCHANGED <<extVars, loadVars, auxVars>>
SpecNorm == InitNorm /\ [][NextNorm]_vars

\* Importing and calling the dispatcher.
InitDispatch == DispInit /\ ExtIdle /\ LoadIdle /\ AuxIdle
NextDispatch == ImportAndCall /\ UNCHANGED <<extVars, loadVars, auxVars>>
SpecDispatch == InitDispatch /\ [][NextDispatch]_vars

-----------------------------------------------------------------------------
(* Claims about the dispatcher.                                            *)

HasInternalSpace(s) == \E k \in 1..Len(s) : s[k] = " "

\* C7: every case and padding variant of a registered alias normalizes to
\* the alias itself, the key the canonical lowercase spelling normalizes to,
\* so the registry lookup selects the same extractor for all of them.
C7_RoutingCaseAndPaddingInsensitive ==
    (normOut.done /\ ~faculdade.isNone /\ origin.widen = 0
        /\ origin.body \in RegistryKeys)
    => /\ normOut.key = origin.body
       /\ normOut.key = NormFaculdade([isNone |-> FALSE, s |-> origin.body])

C7_Witness ==
    /\ normOut.done
    /\ faculdade.s = <<" ", "U", "F", "S", "C", "a", "r", "\t">>
    /\ normOut.key = <<"u", "f", "s", "c", "a", "r">>

\* C8 (as claimed): identifiers that differ from a registered alias only in
\* the length of internal whitespace runs normalize to that alias.
C8_Claimed_InternalWhitespaceCollapsed ==
    (normOut.done /\ ~faculdade.isNone /\ origin.body \in RegistryKeys)
    => normOut.key = origin.body

\* C8 (amended): _norm_faculdade only trims and lowercases; internal
\* whitespace runs are kept as written, so an alias written with a widened
\* internal run normalizes to a key that is no registered alias.
C8_InternalWhitespaceKept ==
    (normOut.done /\ ~faculdade.isNone)
    => /\ normOut.key = Widen(origin.body, origin.widen)
       /\ (origin.widen > 0 /\ HasInternalSpace(origin.body)
              => normOut.key # origin.body /\ normOut.key \notin RegistryKeys)

C8_Witness ==
    /\ normOut.done
    /\ faculdade.s = <<"e", "n", "e", "m", " ", " ", "u", "s", "p">>
    /\ normOut.key = <<"e", "n", "e", "m", " ", " ", "u", "s", "p">>
    /\ normOut.key \notin RegistryKeys

\* C9 (as claimed): the alias table is bound when the module is loaded, so a
\* call with a registered alias reaches the extractor registered for it, with
\* "enem usp" reaching the ENEM-USP extractor.
C9_Claimed_RegistryBound ==
    (callOut.status # "idle" /\ ~faculdade.isNone /\ origin.widen = 0
        /\ origin.body \in RegistryKeys)
    => /\ callOut.status = "returned"
       /\ callOut.fn # "none"
       /\ (origin.body = <<"e", "n", "e", "m", " ", "u", "s", "p">>
              => callOut.fn = "extract_enem_usp")

\* C10 (as claimed): an identifier that matches no alias after normalization
\* (None and "" included) gets an empty list: no extractor, no exception.
C10_Claimed_UnknownGivesEmpty ==
    (callOut.status # "idle" /\ NormFaculdade(faculdade) \notin RegistryKeys)
    => callOut = [status |-> "returned", fn |-> "none", exc |-> "none"]

\* C11 (as claimed): for an unknown identifier the dispatcher falls back to
\* the UFSCar parser, so the call returns what the UFSCar extractor returns
\* on the same bytes.
C11_Claimed_FallbackToUfscar ==
    (callOut.status # "idle" /\ NormFaculdade(faculdade) \notin RegistryKeys)
    => callOut = [status |-> "returned", fn |-> "extract_ufscar", exc |-> "none"]

\* C12 (as claimed): the alias table holds the accented and the unaccented
\* spelling of "Universidade Federal de Sao Carlos", and both identifiers
\* are routed to the UFSCar extractor.
C12_Claimed_UniversityNameAliases ==
    (callOut.status # "idle" /\ ~faculdade.isNone /\ origin.widen = 0
        /\ origin.body \in UniversityNames)
    => /\ NormFaculdade(faculdade) \in RegistryKeys
       /\ callOut = [status |-> "returned", fn |-> "extract_ufscar", exc |-> "none"]
-----------------------------------------------------------------------------
(* The extractors, each run on every document of its bounded input set.    *)

DispIdle ==
    /\ faculdade = None
    /\ origin = [body |-> <<>>, widen |-> 0, cased |-> 0]
    /\ normOut = NoNorm
    /\ callOut = NoCall

InitUfscar == UfscarInit /\ DispIdle /\ LoadIdle /\ AuxIdle
NextUfscar ==
    /\ UfscarScanLine \/ ScanEnd \/ DedupStep \/ DedupEnd
    /\ UNCHANGED <<dispVars, loadVars, auxVars>>
SpecUfscar == InitUfscar /\ [][NextUfscar]_vars

InitFuvest == FuvestInit /\ DispIdle /\ LoadIdle /\ AuxIdle
NextFuvest ==
    /\ FuvestTokenize \/ FuvestScanToken \/ ScanEnd \/ DedupStep \/ DedupEnd
    /\ UNCHANGED <<dispVars, loadVars, auxVars>>
SpecFuvest == InitFuvest /\ [][NextFuvest]_vars

InitIfsp == IfspInit /\ DispIdle /\ LoadIdle /\ AuxIdle
NextIfsp ==
    /\ IfspScanLine \/ ScanEnd \/ DedupStep \/ DedupEnd
    /\ UNCHANGED <<dispVars, loadVars, auxVars>>
SpecIfsp == InitIfsp /\ [][NextIfsp]_vars

InitEnem == EnemInit /\ DispIdle /\ LoadIdle /\ AuxIdle
NextEnem ==
    /\ EnemScanLine \/ ScanEnd \/ DedupStep \/ DedupEnd
    /\ UNCHANGED <<dispVars, loadVars, auxVars>>
SpecEnem == InitEnem /\ [][NextEnem]_vars

InitProvao == ProvaoInit /\ DispIdle /\ LoadIdle /\ AuxIdle
NextProvao ==
    /\ ProvaoNewLine \/ ProvaoNewEnd \/ ProvaoLegacyLine \/ ScanEnd \/ DedupStep \/ DedupEnd
    /\ UNCHANGED <<dispVars, loadVars, auxVars>>
SpecProvao == InitProvao /\ [][NextProvao]_vars

(* The Provao extractor on pages of the legacy format.                     *)
InitLegacy == LegacyInit /\ DispIdle /\ LoadIdle /\ AuxIdle
SpecLegacy == InitLegacy /\ [][NextProvao]_vars

(* Every extractor on every document of its input set.                     *)
InitExtract ==
    /\ UfscarInit \/ FuvestInit \/ ProvaoInit \/ IfspInit \/ EnemInit
    /\ DispIdle /\ LoadIdle /\ AuxIdle
NextExtract ==
    /\ \/ UfscarScanLine
       \/ FuvestTokenize \/ FuvestScanToken
       \/ ProvaoNewLine \/ ProvaoNewEnd \/ ProvaoLegacyLine
       \/ IfspScanLine
       \/ EnemScanLine
       \/ ScanEnd \/ DedupStep \/ DedupEnd
    /\ UNCHANGED <<dispVars, loadVars, auxVars>>
SpecExtract == InitExtract /\ [][NextExtract]_vars

(* _load_dimension_map called again and again, one call at a time.         *)
InitLoadSeq == LoadInit /\ DispIdle /\ ExtIdle /\ AuxIdle
NextLoadSeq ==
    /\ \E t \in Threads :
          LoadCallSequential(t) \/ LoadCheck(t) \/ LoadOpen(t) \/ LoadRow(t) \/ LoadStore(t)
    /\ UNCHANGED <<dispVars, extVars, auxVars>>
SpecLoadSeq == InitLoadSeq /\ [][NextLoadSeq]_vars

(* _load_dimension_map called by two threads, their steps interleaved.     *)
InitLoadConc == LoadInit /\ DispIdle /\ ExtIdle /\ AuxIdle
NextLoadConc ==
    /\ \E t \in Threads :
          LoadCall(t) \/ LoadCheck(t) \/ LoadOpen(t) \/ LoadRow(t) \/ LoadStore(t)
    /\ UNCHANGED <<dispVars, extVars, auxVars>>
SpecLoadConc == InitLoadConc /\ [][NextLoadConc]_vars
-----------------------------------------------------------------------------
(* Helper functions applied to every argument of a bounded input set.      *)

MaxSegments == 5   \* " - "-separated segments of a course blob

S_Inst == <<"U","S","P">>

S_Course == <<"L","e","t","r","a","s"," ","(","B","a","c","h","a","r","e","l","a",
      "d","o",")">>

S_Period == <<"D","i","u","r","n","o">>

\* The segments a course blob is written from; the empty one is dropped by
\* _split_course_blob.
SegmentWords == {S_Inst, S_Course, S_Period, <<>>}

BlobInputs ==
    {[kind |-> "blob", segs |-> s, text |-> JoinWith(s, DashSep)] :
        s \in SeqsUpTo(SegmentWords, MaxSegments) \ {<<>>}}

\* curso, tipo, periodo = _split_course_blob(course_blob)
ApplySplitCourseBlob ==
    /\ arg.kind = "blob"
    /\ ~ret.done
    /\ ret' = [done |-> TRUE, v |-> SplitCourseBlob(arg.text)]
    /\ UNCHANGED arg

InitSplit ==
    /\ arg \in BlobInputs /\ ret = NoOut
    /\ DispIdle /\ ExtIdle /\ LoadIdle /\ RepIdle /\ DbIdle
NextSplit == ApplySplitCourseBlob /\ UNCHANGED <<dispVars, extVars, loadVars, repVars, dbVars>>
SpecSplit == InitSplit /\ [][NextSplit]_vars

(* The Sao Carlos location predicates of the three extractors.             *)

\* The ways the accented letter of "Sao" is written: plain, precomposed with
\* a tilde, decomposed (letter and combining tilde), in both cases, and with
\* an acute accent.
AccentedA ==
    { <<"a">>, <<"A">>, <<a_til>>, <<A_TIL>>, <<"a", COMB_TILDE>>, <<"A", COMB_TILDE>>,
      <<a_acu>> }

LocationPrefixes == { <<>>, <<"C","a","m","p","u","s"," ">>, <<"I","F","S","C",NBSP>> }
LocationSuffixes == { <<>>, <<" ","-"," ","U","S","P">> }
LocationEndings ==
    { <<"o"," ","C","a","r","l","o","s">>, <<"O"," ","C","A","R","L","O","S">>,
      <<"o"," "," ","c","a","r","l","o","s">>, <<"o"," ","P","a","u","l","o">> }

LocationTexts ==
    {[kind |-> "text", a |-> a, ending |-> e, text |-> p \o <<s>> \o a \o e \o x] :
        p \in LocationPrefixes, s \in {"S", "s"}, a \in AccentedA,
        e \in LocationEndings, x \in LocationSuffixes}

\* _is_sao_carlos_campus of ufscar.py, enem_usp.py and provao.py on one text
ApplyIsSaoCarlosCampus ==
    /\ arg.kind = "text"
    /\ ~ret.done
    /\ ret' = [done |-> TRUE,
               v |-> [ufscar |-> UfscarIsSaoCarlosCampus(arg.text),
                      enem_usp |-> EnemIsSaoCarlosCampus(arg.text),
                      provao |-> ProvaoIsSaoCarlosCampus(arg.text)]]
    /\ UNCHANGED arg

InitLocation ==
    /\ arg \in LocationTexts /\ ret = NoOut
    /\ DispIdle /\ ExtIdle /\ LoadIdle /\ RepIdle /\ DbIdle
NextLocation == ApplyIsSaoCarlosCampus /\ UNCHANGED <<dispVars, extVars, loadVars, repVars, dbVars>>
SpecLocation == InitLocation /\ [][NextLocation]_vars

-----------------------------------------------------------------------------
(* An extractor called twice on the same page text.  The Fuvest extractor  *)
(* obtains its dimension table from _load_dimension_map: the first call  *)
(* parses the file and sets the module-level cache, the second call is     *)
(* returned the cache.                                                     *)

MaxRepeatLines == 2

\* The mapping the loop of _load_dimension_map builds from the rows k.. of a
\* well-formed file.
RECURSIVE LoadRows(_, _, _)
LoadRows(rows, k, mapping) ==
    IF k > Len(rows) THEN mapping
    ELSE LoadRows(rows, k + 1, ProcessRow(mapping, rows[k]).mapping)

\* The locals of the scan loop at the entry of extract_records_from_bytes.
StartCtx(p) ==
    CASE p = "ufscar" -> [current_course |-> <<>>]
      [] p = "fuvest" -> [tokens |-> <<>>, name_tokens |-> <<>>]
      [] p = "ifsp" -> [curso |-> <<>>, tipo |-> <<>>, periodo |-> <<>>]
      [] p = "enem_usp" ->
            [current_course |-> [ok |-> FALSE, curso |-> <<>>, tipo |-> <<>>,
                                 periodo |-> <<>>],
             current_institution |-> <<>>]
      [] OTHER -> [phase |-> "new", rows |-> <<>>, buffer |-> <<>>,
                   current_name |-> NoName, current_course |-> NoCourse]

RepeatLines(p) ==
    CASE p = "ufscar" -> UfscarLines
      [] p = "fuvest" -> FuvestLines
      [] p = "ifsp" -> IfspLines
      [] p = "enem_usp" -> EnemLines
      [] OTHER -> ProvaoLines

RepeatInit ==
    /\ parser \in {"ufscar", "fuvest", "ifsp", "enem_usp", "provao"}
    /\ doc \in SeqsUpTo(RepeatLines(parser), MaxRepeatLines)
    /\ resource \in IF parser = "fuvest"
                    THEN {ResourceEmpty, ResourceWellFormed, ResourceDuplicate}
                    ELSE {ResourceMissing}
    /\ cache = NoCache
    /\ thr = [t \in Threads |-> IdleThread]
    /\ reads = 0
    /\ loads = 0
    /\ dimension = <<>>
    /\ pc = "call"
    /\ idx = 1
    /\ ctx = StartCtx(parser)
    /\ records = <<>>
    /\ seen = {}
    /\ deduped = <<>>
    /\ call = 1
    /\ firstOut = <<>>

\* extract_records_from_bytes(file_bytes) is entered; the Fuvest extractor
\* calls _load_dimension_map() first.
EnterCall ==
    /\ pc = "call"
    /\ pc' = IF parser = "fuvest" THEN "read" ELSE "scan"
    /\ idx' = 1
    /\ ctx' = StartCtx(parser)
    /\ records' = <<>>
    /\ IF parser # "fuvest"
       THEN UNCHANGED <<dimension, cache, reads, loads>>
       ELSE IF CacheHit(cache)
       THEN /\ dimension' = cache.table
            /\ UNCHANGED <<cache, reads, loads>>
       ELSE /\ dimension' = LoadRows(resource.rows, 1, EmptyTable)
            /\ cache' = [set |-> TRUE, table |-> LoadRows(resource.rows, 1, EmptyTable)]
            /\ reads' = reads + 1
            /\ loads' = loads + 1
    /\ UNCHANGED <<parser, doc, seen, deduped, resource, thr, call, firstOut>>

\* The first call has returned; the caller keeps its list and calls again
\* with the same bytes.
CallAgain ==
    /\ pc = "done"
    /\ call = 1
    /\ firstOut' = deduped
    /\ call' = 2
    /\ pc' = "call"
    /\ UNCHANGED <<parser, doc, dimension, idx, ctx, records, seen, deduped, loadVars>>

InitRepeat == RepeatInit /\ DispIdle /\ FunIdle /\ DbIdle
NextRepeat ==
    /\ \/ /\ \/ UfscarScanLine
             \/ FuvestTokenize \/ FuvestScanToken
             \/ ProvaoNewLine \/ ProvaoNewEnd \/ ProvaoLegacyLine
             \/ IfspScanLine
             \/ EnemScanLine
             \/ ScanEnd \/ DedupStep \/ DedupEnd
          /\ UNCHANGED <<loadVars, repVars>>
       \/ EnterCall
       \/ CallAgain
    /\ UNCHANGED <<dispVars, funVars, dbVars>>
SpecRepeat == InitRepeat /\ [][NextRepeat]_vars
-----------------------------------------------------------------------------
(* main.py: process_job's database steps, one action per SQL statement     *)
(* (each statement is committed on its own connection), and the CRM        *)
(* queries of smoke_crm_layer.py.  A table is the set of its rows; fact_crm *)
(* is the sequence of its rows in insertion order.  Timestamps are read    *)
(* from clock, the value of now().                                         *)

MaxClock == 2      \* greatest value of now()
MaxJobs == 2       \* jobs a worker starts
MaxEvents == 2     \* rows of fact_crm

NULL == "NULL"
NullTime == 0     \* a timestamp column that IS NULL

Workers == {"w1", "w2"}

\* processo_faculdade_map.get(faculdade.lower(), faculdade), on identifiers
\* written in lower case.
processo_faculdade_map(f) ==
    CASE f = "ufscar" -> "UFSCar"
      [] f = "fuvest" -> "USP"
      [] f = "enem usp" -> "USP"
      [] f = "provao paulista (fuvest)" -> "USP"
      [] f = "fuvest lista de espera" -> "USP"
      [] f = "ifsp" -> "IFSP"
      [] OTHER -> f

\* The records an extractor returns (distinct on (nome, curso)).
LeadNomes == {"ANA LIMA", "CAIO SOUZA"}
LeadCursos == {"Direito", "Fisica"}
Lead(n, c) ==
    [nome |-> n, curso |-> c,
     tipo |-> IF c = "Direito" THEN "Bacharelado" ELSE "Licenciatura",
     periodo |-> IF c = "Direito" THEN "Noturno" ELSE "Integral"]
JobRecords ==
    {<<Lead(n, c)>> : n \in LeadNomes, c \in LeadCursos}
    \cup {<<Lead("ANA LIMA", c), Lead("CAIO SOUZA", d)>> : c \in LeadCursos, d \in LeadCursos}
    \cup {<<Lead("ANA LIMA", "Direito"), Lead("ANA LIMA", "Fisica")>>}

\* The jobs: imports."Faculdade", imports."Ano" and the records parsed from
\* the job's PDF.
JobFaculdades == {"ufscar", "fuvest"}
JobAnos == {2025}
JobInput(f, a, rs) == [Faculdade |-> f, Ano |-> a, records |-> rs]
JobInputs == {JobInput(f, a, rs) : f \in JobFaculdades, a \in JobAnos, rs \in JobRecords}
\* Two lists that share a candidate, for the runs with CRM activity.
LeadJobInputs ==
    {JobInput("ufscar", 2025, <<Lead("ANA LIMA", "Direito")>>),
     JobInput("fuvest", 2025, <<Lead("ANA LIMA", "Fisica"), Lead("CAIO SOUZA", "Fisica")>>)}

\* The table course_responsavel, which no statement of the pipeline writes.
course_responsavel == {[curso |-> "Direito", responsavel_nome |-> "BRUNO"]}

IdleJob == [stage |-> "idle", Faculdade |-> NULL, Ano |-> 0, records |-> <<>>,
            inserted |-> 0, runs |-> 0]
OffJob == [IdleJob EXCEPT !.stage = "off"]

DbInit ==
    /\ leads_raw = {} /\ leads_silver = {} /\ dimension_lead = {}
    /\ fact_crm = <<>>
    /\ clock = 1
    /\ job = [w \in Workers |-> IF w = "w1" THEN IdleJob ELSE OffJob]
    /\ view = <<>>
    /\ imports = <<>>

\* now() of a new transaction: time has passed, or not.
Now == {t \in {clock, clock + 1} : t <= MaxClock}

\* Steps 1-3: the job is taken, its PDF downloaded and parsed.
TakeJob(w, inputs) ==
    /\ job[w].stage = "idle"
    /\ job[w].runs < MaxJobs
    /\ \E in \in inputs :
         job' = [job EXCEPT ![w] = [stage |-> "parsed", Faculdade |-> in.Faculdade,
                                    Ano |-> in.Ano, records |-> in.records,
                                    inserted |-> 0, runs |-> @.runs + 1]]
    /\ UNCHANGED <<leads_raw, leads_silver, dimension_lead, fact_crm, clock, view, imports>>
StartJob(w) == TakeJob(w, JobInputs)
StartLeadJob(w) == TakeJob(w, LeadJobInputs)

\* INSERT INTO leads_raw ... ON CONFLICT ("Faculdade", "Ano", "Nome") DO NOTHING
\* for one row of the batch.
RawKey(r) == <<r.Faculdade, r.Ano, r.Nome>>
InsertOrReplaceRow(raw, r) == {q \in raw : RawKey(q) # RawKey(r)} \cup {r}
InsertRawRow(raw, r) ==
    IF \E q \in raw : RawKey(q) = RawKey(r) THEN raw ELSE raw \cup {r}

\* batch_data, and execute_batch over it: the rows go in one after the other.
BatchRow(f, a, r, t) ==
    [Faculdade |-> processo_faculdade_map(f), Ano |-> a, Nome |-> r.nome,
     Curso |-> r.curso, Tipo |-> r.tipo, Periodo |-> r.periodo, created_at |-> t]
RECURSIVE ExecuteBatch(_, _, _, _, _)
ExecuteBatch(raw, f, a, rs, t) ==
    IF rs = <<>> THEN raw
    ELSE ExecuteBatch(InsertRawRow(raw, BatchRow(f, a, Head(rs), t)), f, a, Tail(rs), t)

\* Step 4; of the job's inputs only the size of the batch is used later.
InsertLeadsRaw(w) ==
    /\ job[w].stage = "parsed"
    /\ \E t \in Now :
        /\ clock' = t
        /\ leads_raw' = ExecuteBatch(leads_raw, job[w].Faculdade, job[w].Ano,
                                     job[w].records, t)
    /\ job' = [job EXCEPT ![w].stage = "inserted", ![w].inserted = Len(job[w].records),
                           ![w].Faculdade = NULL, ![w].Ano = 0, ![w].records = <<>>]
    /\ UNCHANGED <<leads_silver, dimension_lead, fact_crm, view, imports>>

\* ORDER BY created_at DESC: the rows that may come first.
OldestFirst(rows) == {r \in rows : \A q \in rows : r.created_at <= q.created_at}
NewestFirst(rows) == {r \in rows : \A q \in rows : q.created_at <= r.created_at}

\* SELECT DISTINCT ON ("Nome") ... ORDER BY "Nome", created_at DESC: for every
\* Nome one row, the first of its rows in the order; which of several rows
\* with the same created_at comes first is not determined.
NomesOf(rows) == {r.Nome : r \in rows}
DistinctOnNome(raw) ==
    {src \in [NomesOf(raw) -> raw] :
        \A n \in NomesOf(raw) : src[n] \in NewestFirst({r \in raw : r.Nome = n})}

\* MERGE INTO leads_silver USING src ON (tgt."Nome" = src."Nome").
MergeInto(silver, src) ==
    {IF t.Nome \in DOMAIN src /\ src[t.Nome].created_at > t.created_at
     THEN src[t.Nome] ELSE t : t \in silver}
    \cup {src[n] : n \in {m \in DOMAIN src : \A t \in silver : t.Nome # m}}

\* Step 4b.
MergeRawToSilver(w) ==
    /\ job[w].stage = "inserted"
    /\ \E src \in DistinctOnNome(leads_raw) :
         leads_silver' = MergeInto(leads_silver, src)
    /\ job' = [job EXCEPT ![w].stage = "merged"]
    /\ UNCHANGED <<leads_raw, dimension_lead, fact_crm, clock, view, imports>>

\* leads_silver s LEFT JOIN course_responsavel cr ON cr.curso = s."Curso"
ResponsavelOf(curso) ==
    IF \E cr \in course_responsavel : cr.curso = curso
    THEN (CHOOSE cr \in course_responsavel : cr.curso = curso).responsavel_nome
    ELSE NULL

\* COALESCE(a, b)
CoalesceSecond(a, b) == IF b # NULL THEN b ELSE a
Coalesce(a, b) == IF a # NULL THEN a ELSE b

\* The row the INSERT proposes for a silver row (EXCLUDED).
Excluded(s) ==
    [nome |-> s.Nome, responsavel_nome |-> ResponsavelOf(s.Curso),
     Ano |-> s.Ano, Faculdade |-> s.Faculdade, Curso |-> s.Curso,
     Tipo |-> s.Tipo, Periodo |-> s.Periodo,
     source_silver_created_at |-> s.created_at]

\* ON CONFLICT (nome) DO UPDATE SET ... WHERE ...
UpdateWhere(d, e) ==
    \/ d.source_silver_created_at = NullTime
    \/ e.source_silver_created_at > d.source_silver_created_at
ConflictUpdate(d, e) ==
    IF UpdateWhere(d, e)
    THEN [d EXCEPT !.responsavel_nome = Coalesce(d.responsavel_nome, e.responsavel_nome),
                   !.Ano = e.Ano, !.Faculdade = e.Faculdade, !.Curso = e.Curso,
                   !.Tipo = e.Tipo, !.Periodo = e.Periodo,
                   !.source_silver_created_at = e.source_silver_created_at]
    ELSE d

\* A row inserted into dimension_lead gets the lead_id the table generates.
WithLeadId(e, id) ==
    [lead_id |-> id, nome |-> e.nome, responsavel_nome |-> e.responsavel_nome,
     Ano |-> e.Ano, Faculdade |-> e.Faculdade, Curso |-> e.Curso,
     Tipo |-> e.Tipo, Periodo |-> e.Periodo,
     source_silver_created_at |-> e.source_silver_created_at]

\* INSERT INTO dimension_lead ... SELECT ... ON CONFLICT (nome) DO UPDATE;
\* ids gives the generated key of every row that is new.
UpsertInto(dim, silver, ids) ==
    {IF \E s \in silver : s.Nome = d.nome
     THEN ConflictUpdate(d, Excluded(CHOOSE s \in silver : s.Nome = d.nome))
     ELSE d : d \in dim}
    \cup {WithLeadId(Excluded(s), ids[s.Nome]) :
            s \in {x \in silver : \A d \in dim : d.nome # x.Nome}}

\* The keys the table generates: fresh, and all different.
FreshIds(dim, nomes) ==
    LET n == Cardinality(dim)
        k == Cardinality(nomes)
    IN {ids \in [nomes -> (n + 1)..(n + k)] :
            \A a, b \in nomes : a # b => ids[a] # ids[b]}

\* Step 4c.
UpsertSilverToDimension(w) ==
    /\ job[w].stage = "merged"
    /\ \E ids \in FreshIds(dimension_lead,
                           {s.Nome : s \in leads_silver} \ {d.nome : d \in dimension_lead}) :
         dimension_lead' = UpsertInto(dimension_lead, leads_silver, ids)
    /\ job' = [job EXCEPT ![w].stage = "upserted"]
    /\ UNCHANGED <<leads_raw, leads_silver, fact_crm, clock, view, imports>>

\* SELECT 1 FROM fact_crm f WHERE f.lead_id = d.lead_id
HasEvents(crm, id) == \E i \in 1..Len(crm) : crm[i].lead_id = id

\* The leads the seed statement selects.
SeedAll(dim, crm) == {d.lead_id : d \in dim}
SeedLeads(dim, crm) == {d.lead_id : d \in {x \in dim : ~HasEvents(crm, x.lead_id)}}

NovoEvent(id, t) ==
    [lead_id |-> id, status |-> "Novo", observacoes |-> NULL,
     changed_by |-> "pipeline", changed_at |-> t]

\* The rows the statement inserts, appended in the order of their lead_id.
RECURSIVE Appended(_, _, _)
Appended(crm, ids, t) ==
    IF ids = {} THEN crm
    ELSE LET id == CHOOSE i \in ids : \A j \in ids : i <= j
         IN Appended(Append(crm, NovoEvent(id, t)), ids \ {id}, t)

\* Step 4d.
SeedFactCrm(w) ==
    /\ job[w].stage = "upserted"
    /\ \E t \in Now :
        /\ clock' = t
        /\ fact_crm' = Appended(fact_crm, SeedLeads(dimension_lead, fact_crm), t)
    /\ job' = [job EXCEPT ![w].stage = "seeded"]
    /\ UNCHANGED <<leads_raw, leads_silver, dimension_lead, view, imports>>

\* Step 5: the job is completed.
CompleteJob(w) ==
    /\ job[w].stage = "seeded"
    /\ job' = [job EXCEPT ![w].stage = "idle"]
    /\ UNCHANGED <<leads_raw, leads_silver, dimension_lead, fact_crm, clock, view, imports>>

\* except Exception: a step of the job raised; what was committed stays.
FailJob(w) ==
    /\ job[w].stage \in {"parsed", "inserted", "merged", "upserted", "seeded"}
    /\ job' = [job EXCEPT ![w].stage = "idle"]
    /\ UNCHANGED <<leads_raw, leads_silver, dimension_lead, fact_crm, clock, view, imports>>

\* The CRM records a status change of a lead:
\* INSERT INTO fact_crm (lead_id, status, observacoes, changed_at).
UserStatuses == {"contatado"}
RecordCrmEvent ==
    /\ Len(fact_crm) < MaxEvents
    /\ \E d \in dimension_lead, st \in UserStatuses, t \in Now :
        /\ clock' = t
        /\ fact_crm' = Append(fact_crm,
                              [lead_id |-> d.lead_id, status |-> st, observacoes |-> NULL,
                               changed_by |-> NULL, changed_at |-> t])
    /\ UNCHANGED <<leads_raw, leads_silver, dimension_lead, job, view, imports>>

\* SELECT f.status FROM fact_crm f WHERE f.lead_id = d.lead_id
\* ORDER BY f.changed_at ASC / DESC LIMIT 1: the values the subquery may give.
EventsOf(crm, id) == {crm[i] : i \in {j \in 1..Len(crm) : crm[j].lead_id = id}}
FirstStatusAsc(crm, id) ==
    IF EventsOf(crm, id) = {} THEN {NULL}
    ELSE {e.status : e \in {x \in EventsOf(crm, id) :
                               \A y \in EventsOf(crm, id) : x.changed_at <= y.changed_at}}
FirstStatusDesc(crm, id) ==
    IF EventsOf(crm, id) = {} THEN {NULL}
    ELSE {e.status : e \in {x \in EventsOf(crm, id) :
                               \A y \in EventsOf(crm, id) : y.changed_at <= x.changed_at}}

\* The query of a lead with its current status.
SelectCurrentStatus ==
    /\ \E d \in dimension_lead :
         \E st \in FirstStatusDesc(fact_crm, d.lead_id) :
            view' = [lead_id |-> d.lead_id, nome |-> d.nome, current_status |-> st]
    /\ UNCHANGED <<leads_raw, leads_silver, dimension_lead, fact_crm, clock, job, imports>>

\* The pipeline alone.
InitDb == DbInit /\ DispIdle /\ ExtIdle /\ LoadIdle /\ FunIdle /\ RepIdle
JobStep(w) ==
    \/ InsertLeadsRaw(w)
    \/ MergeRawToSilver(w)
    \/ UpsertSilverToDimension(w)
    \/ SeedFactCrm(w)
    \/ CompleteJob(w)
    \/ FailJob(w)
NextDb ==
    /\ \E w \in Workers : StartJob(w) \/ JobStep(w)
    /\ UNCHANGED <<dispVars, extVars, loadVars, funVars, repVars>>
SpecDb == InitDb /\ [][NextDb]_vars

\* The pipeline while the CRM records status changes and queries leads.
NextCrm ==
    /\ \/ \E w \in Workers : StartLeadJob(w) \/ JobStep(w)
       \/ RecordCrmEvent
       \/ SelectCurrentStatus
    /\ UNCHANGED <<dispVars, extVars, loadVars, funVars, repVars>>
SpecCrm == InitDb /\ [][NextCrm]_vars
-----------------------------------------------------------------------------
(* main.py: process_pending_jobs_task and process_job over the table       *)
(* imports.  A trigger of /process-jobs starts one run of the task on a     *)
(* worker thread; runs of different workers interleave statement by        *)
(* statement.  job[w] holds the run's local variables: the fetched rows    *)
(* still to process (queue), the row being processed (id) and the position *)
(* inside process_job (stage).                                             *)

MaxTriggers == 2   \* calls of /process-jobs

JobIds == {1, 2}

\* The PDF stored for a job: the records its extractor returns, or bytes
\* no extractor can open.
GoodFile(rs) == [ok |-> TRUE, records |-> rs]
BadFile == [ok |-> FALSE, records |-> <<>>]

ImportRow(f, file, st) ==
    [Faculdade |-> f, Ano |-> 2025, file |-> file, status |-> st,
     stats_json |-> <<>>, error |-> NULL, attempts |-> 0]

\* The rows of imports when the service starts: a list that parses, and a
\* second job of each kind.
FirstImports ==
    {ImportRow("ufscar", GoodFile(<<Lead("ANA LIMA", "Direito")>>), "queued_parse")}
SecondImports ==
    {ImportRow("fuvest", GoodFile(<<Lead("ANA LIMA", "Fisica"), Lead("CAIO SOUZA", "Fisica")>>), st) :
        st \in {"queued_parse", "completed", "parsing"}}
    \cup {ImportRow("unicamp", GoodFile(<<Lead("CAIO SOUZA", "Direito")>>), "pending"),
          ImportRow("ufscar", BadFile, "failed")}

\* _REGISTRY's keys.
RegisteredFaculdades ==
    {"ufscar", "fuvest", "fuvest lista de espera", "enem usp",
     "provao paulista (fuvest)", "ifsp"}

\* WHERE status = 'queued_parse' OR status = 'pending' OR status = 'failed'
SelectedStatuses == {"queued_parse", "pending", "failed"}
SelectPending(imp) == {i \in DOMAIN imp : imp[i].status \in SelectedStatuses}

\* fetchall(): the selected rows in an order the query does not fix.
Orders(ids) ==
    {q \in UNION {[1..n -> ids] : n \in {Cardinality(ids)}} :
        \A i, j \in DOMAIN q : i # j => q[i] # q[j]}

TriggersUsed == job["w1"].runs + job["w2"].runs

RunJob == [stage |-> "idle", Faculdade |-> NULL, Ano |-> 0, records |-> <<>>,
           inserted |-> 0, runs |-> 0, id |-> 0, queue |-> <<>>, extracted |-> 0]

\* The tables are empty, the workers in ws are free to take a trigger and
\* now() is t.
JobsInit(t, ws) ==
    /\ leads_raw = {} /\ leads_silver = {} /\ dimension_lead = {}
    /\ fact_crm = <<>>
    /\ clock = t
    /\ job = [w \in Workers |-> IF w \in ws THEN RunJob ELSE [RunJob EXCEPT !.stage = "off"]]
    /\ view = <<>>
    /\ \E a \in FirstImports, b \in SecondImports :
         imports = [i \in JobIds |-> IF i = 1 THEN a ELSE b]

jobFrame == <<leads_raw, leads_silver, dimension_lead, fact_crm, clock, view>>

\* trigger_job_processing and the head of process_pending_jobs_task: the
\* task starts and fetches the jobs to process.
FetchJobs(w) ==
    /\ job[w].stage = "idle"
    /\ TriggersUsed < MaxTriggers
    /\ \E q \in Orders(SelectPending(imports)) :
         job' = [job EXCEPT ![w].stage = "loop", ![w].queue = q, ![w].runs = @ + 1]
    /\ UNCHANGED <<jobFrame, imports>>

\* The fetch raises: "Error fetching jobs", and the task ends.
FetchFails(w) ==
    /\ job[w].stage = "idle"
    /\ TriggersUsed < MaxTriggers
    /\ job' = [job EXCEPT ![w].runs = @ + 1]
    /\ UNCHANGED <<jobFrame, imports>>

\* for job in jobs: the list is exhausted and the task ends.
EndRun(w) ==
    /\ job[w].stage = "loop"
    /\ job[w].queue = <<>>
    /\ job' = [job EXCEPT ![w].stage = "idle"]
    /\ UNCHANGED <<jobFrame, imports>>

\* process_job(job) up to step 1: the row is marked 'parsing', whatever its
\* status is by now.
MarkParsing(w) ==
    /\ job[w].stage = "loop"
    /\ job[w].queue # <<>>
    /\ LET i == Head(job[w].queue) IN
        /\ imports' = [imports EXCEPT ![i].status = "parsing", ![i].attempts = @ + 1]
        /\ job' = [job EXCEPT ![w].stage = "started", ![w].id = i,
                               ![w].queue = Tail(@),
                               ![w].Faculdade = imports[i].Faculdade,
                               ![w].Ano = imports[i].Ano]
    /\ UNCHANGED jobFrame

\* extract_records_from_bytes_for_faculdade: an unregistered faculdade
\* gives no records and the bytes are not opened.
ExtractAlways(file, f) == file
ExtractForFaculdade(file, f) ==
    IF f \notin RegisteredFaculdades THEN GoodFile(<<>>) ELSE file

\* Steps 2 and 3: the PDF is downloaded and parsed.
ParseJob(w) ==
    /\ job[w].stage = "started"
    /\ LET out == ExtractForFaculdade(imports[job[w].id].file, job[w].Faculdade) IN
        /\ out.ok
        /\ job' = [job EXCEPT ![w].stage = "parsed", ![w].records = out.records,
                               ![w].extracted = Len(out.records)]
    /\ UNCHANGED <<jobFrame, imports>>

\* stats_json
NoStats(j) == [extracted |-> 0, inserted |-> 0, skipped |-> 0, failed |-> 1]
StatsJson(j) == [extracted |-> j.extracted, inserted |-> j.inserted,
                 skipped |-> 0, failed |-> 0]

Returned(j) == [j EXCEPT !.stage = "loop", !.id = 0, !.Faculdade = NULL, !.Ano = 0,
                          !.records = <<>>, !.inserted = 0, !.extracted = 0]

\* Step 5: UPDATE imports SET status = 'completed', stats_json = ...
MarkCompleted(w) ==
    /\ job[w].stage = "seeded"
    /\ imports' = [imports EXCEPT ![job[w].id].status = "completed",
                                  ![job[w].id].stats_json = <<StatsJson(job[w])>>]
    /\ job' = [job EXCEPT ![w] = Returned(@)]
    /\ UNCHANGED jobFrame

InProcess == {"started", "parsed", "inserted", "merged", "upserted", "seeded"}

\* The row process_job is working on, step 1 included.
CurrentId(w) == IF job[w].stage = "loop" THEN Head(job[w].queue) ELSE job[w].id

\* except Exception: a step raised (step 1 too).  The row is marked
\* 'failed' with the error text; when that update raises as well it is only
\* logged.  process_job returns to the loop in both cases.
MarkFailed(w) ==
    /\ \/ job[w].stage \in InProcess
       \/ job[w].stage = "loop" /\ job[w].queue # <<>>
    /\ \/ imports' = [imports EXCEPT ![CurrentId(w)].status = "failed",
                                     ![CurrentId(w)].error = "Exception"]
       \/ imports' = imports
    /\ job' = [job EXCEPT ![w] = IF @.stage = "loop"
                                 THEN [Returned(@) EXCEPT !.queue = Tail(@)]
                                 ELSE Returned(@)]
    /\ UNCHANGED jobFrame

\* The statements of steps 4a-4d.
DbStep(w) ==
    \/ InsertLeadsRaw(w)
    \/ MergeRawToSilver(w)
    \/ UpsertSilverToDimension(w)
    \/ SeedFactCrm(w)

\* Two workers, so that two runs of the task overlap; now() stands still.
InitJobs == JobsInit(MaxClock, Workers) /\ DispIdle /\ ExtIdle /\ LoadIdle /\ FunIdle /\ RepIdle
JobAction(w) ==
    \/ FetchJobs(w)
    \/ FetchFails(w)
    \/ EndRun(w)
    \/ MarkParsing(w)
    \/ ParseJob(w)
    \/ DbStep(w)
    \/ MarkCompleted(w)
    \/ MarkFailed(w)
NextJobs ==
    /\ \E w \in Workers : JobAction(w)
    /\ UNCHANGED <<dispVars, extVars, loadVars, funVars, repVars>>
SpecJobs == InitJobs /\ [][NextJobs]_vars

\* One run of the task after the other while time passes: a failed job is
\* retried by the next trigger.
InitRetry == JobsInit(1, {"w1"}) /\ DispIdle /\ ExtIdle /\ LoadIdle /\ FunIdle /\ RepIdle
NextRetry ==
    /\ JobAction("w1")
    /\ UNCHANGED <<dispVars, extVars, loadVars, funVars, repVars>>
SpecRetry == InitRetry /\ [][NextRetry]_vars
-----------------------------------------------------------------------------
(* main.py, step 4c on its own: the upsert statement applied to the        *)
(* contents dimension_lead and leads_silver may have when it runs, rows    *)
(* the CRM has edited (a responsavel assigned by hand, no                  *)
(* source_silver_created_at) included.                                     *)

Timestamps == 1..MaxClock

\* The rows of leads_silver: at most one for a Nome.
SilverRows(n, cursos) ==
    {BatchRow("ufscar", 2025, Lead(n, c), t) : c \in cursos, t \in Timestamps}
LeadsSilverTables ==
    {a \cup b : a \in {{}} \cup {{r} : r \in SilverRows("ANA LIMA", LeadCursos)},
                b \in {{}} \cup {{r} : r \in SilverRows("CAIO SOUZA", {"Fisica"})}}

\* The rows of dimension_lead: the lead ANA LIMA as an earlier upsert or the
\* CRM left it.
DimensionRows ==
    {[WithLeadId(Excluded(BatchRow("ufscar", 2025, Lead("ANA LIMA", "Fisica"), 1)), 1)
        EXCEPT !.responsavel_nome = r, !.source_silver_created_at = t] :
       r \in {NULL, "DANI"}, t \in {NullTime} \cup Timestamps}
DimensionLeadTables == {{}} \cup {{d} : d \in DimensionRows}

UpsertInit ==
    /\ leads_raw = {}
    /\ leads_silver \in LeadsSilverTables
    /\ dimension_lead \in DimensionLeadTables
    /\ fact_crm = <<>>
    /\ clock = MaxClock
    /\ job = [w \in Workers |-> IF w = "w1" THEN [IdleJob EXCEPT !.stage = "merged"] ELSE OffJob]
    /\ view = <<>>
    /\ imports = <<>>

InitUpsert == UpsertInit /\ DispIdle /\ ExtIdle /\ LoadIdle /\ FunIdle /\ RepIdle
NextUpsert ==
    /\ \E w \in Workers : UpsertSilverToDimension(w)
    /\ UNCHANGED <<dispVars, extVars, loadVars, funVars, repVars>>
SpecUpsert == InitUpsert /\ [][NextUpsert]_vars
-----------------------------------------------------------------------------
(* Properties of the extractors.                                           *)

W_Direito == <<"D","i","r","e","i","t","o">>

W_Fisica == <<"F","i","s","i","c","a">>

W_Bacharelado == <<"B","a","c","h","a","r","e","l","a","d","o">>

W_JoaoDaSilva == <<"J","O","A","O"," ","D","A"," ","S","I","L","V","A">>

W_Bia == <<"B","I","A">>

W_uspLower == <<"u","s","p">>

W_Letras == <<"L","e","t","r","a","s">>

W_Diurno == <<"D","i","u","r","n","o">>

W_AnaLima == <<"A","N","A"," ","L","I","M","A">>

W_Licenciatura == <<"L","i","c","e","n","c","i","a","t","u","r","a">>

W_Caio == <<"C","A","I","O">>

W_EngenhariaCivil == <<"E","n","g","e","n","h","a","r","i","a"," ","C","i","v","i","l">>

\* The dedup key of a record.
Key(r) == <<r.nome, r.curso>>

\* C1: for every extractor and every input document, the returned list holds
\* no two records with the same (nome, curso) pair.
C1_NoTwoRecordsShareNomeCurso ==
    \A i, j \in 1..Len(deduped) : i # j => Key(deduped[i]) # Key(deduped[j])

\* An extractor has returned, and its raw records held the same key twice.
C1_Witness ==
    /\ pc = "done"
    /\ \E i, j \in 1..Len(records) : i < j /\ Key(records[i]) = Key(records[j])

\* The positions of the raw records whose key did not occur earlier.
FirstOccurrences ==
    {i \in 1..Len(records) : \A j \in 1..(i - 1) : Key(records[j]) # Key(records[i])}

\* C2: the returned list is the raw records without every record whose
\* (nome, curso) pair occurred earlier: the survivors keep their order and
\* the whole first emission of their key, tipo and periodo included.
C2_ReturnedListIsFirstOccurrences ==
    pc = "done" =>
        /\ Len(deduped) = Cardinality(FirstOccurrences)
        /\ \A k \in 1..Len(deduped) :
               \E i \in FirstOccurrences :
                   /\ Cardinality({j \in FirstOccurrences : j <= i}) = k
                   /\ deduped[k] = records[i]

\* An extractor has returned after emitting one key twice with different
\* tipo or periodo.
C2_Witness ==
    /\ pc = "done"
    /\ \E i, j \in 1..Len(records) :
           /\ i < j
           /\ Key(records[i]) = Key(records[j])
           /\ <<records[i].tipo, records[i].periodo>> # <<records[j].tipo, records[j].periodo>>

\* C3: Fuvest join invariant.  A step of the Fuvest extractor changes the raw
\* records only by appending one record at a CPF token whose following
\* tokens reconstruct a code of the Dimension Table, and that record carries
\* exactly the curso, tipo and periodo of the code's row; so nothing is
\* emitted for a code absent from the table.
C3_FuvestJoinInvariant ==
    [][parser = "fuvest" =>
          \/ records' = records
          \/ /\ pc = "scan" /\ idx <= Len(ctx.tokens)
             /\ CpfMatch(ctx.tokens[idx])
             /\ LET c == ConsumeCode(ctx.tokens, idx + 1)
                IN  /\ c.code.ok
                    /\ c.code.code \in DOMAIN dimension
                    /\ Len(records') = Len(records) + 1
                    /\ SubSeq(records', 1, Len(records)) = records
                    /\ LET r == records'[Len(records')]
                           row == dimension[c.code.code]
                       IN  <<r.curso, r.tipo, r.periodo>> = <<row.curso, row.tipo, row.periodo>>]_vars

\* The Fuvest extractor has returned a record, and one of its CPF tokens was
\* followed by a code that the table does not hold.
C3_Witness ==
    /\ parser = "fuvest" /\ pc = "done"
    /\ deduped # <<>>
    /\ \E i \in 1..Len(ctx.tokens) :
           /\ CpfMatch(ctx.tokens[i])
           /\ ConsumeCode(ctx.tokens, i + 1).code.ok
           /\ ConsumeCode(ctx.tokens, i + 1).code.code \notin DOMAIN dimension

\* The code and the number of tokens of a career-course code written at
\* token s in one of the four shapes, with either dash.
CodeShapeAt(tokens, s) ==
    LET t1 == tokens[s]
        t2 == IF s + 1 <= Len(tokens) THEN tokens[s + 1] ELSE <<>>
        none == [ok |-> FALSE, code |-> <<>>, n |-> 0]
    IN  IF Len(t1) = 6 /\ IsDigits(SubSeq(t1, 1, 3)) /\ IsDash(t1[4])
           /\ IsDigits(SubSeq(t1, 5, 6))
        THEN [ok |-> TRUE, code |-> SubSeq(t1, 1, 3) \o <<"-">> \o SubSeq(t1, 5, 6), n |-> 1]
        ELSE IF Len(t1) = 3 /\ IsDigits(t1) /\ Len(t2) = 3 /\ IsDash(t2[1])
                /\ IsDigits(SubSeq(t2, 2, 3))
        THEN [ok |-> TRUE, code |-> t1 \o <<"-">> \o SubSeq(t2, 2, 3), n |-> 2]
        ELSE IF Len(t1) = 5 /\ IsDigits(SubSeq(t1, 1, 3)) /\ IsDash(t1[4])
                /\ IsDigit(t1[5]) /\ Len(t2) = 1 /\ IsDigits(t2)
        THEN [ok |-> TRUE, code |-> SubSeq(t1, 1, 3) \o <<"-", t1[5]>> \o t2, n |-> 2]
        ELSE IF Len(t1) = 4 /\ IsDigits(SubSeq(t1, 1, 3)) /\ IsDash(t1[4])
                /\ Len(t2) = 2 /\ IsDigits(t2)
        THEN [ok |-> TRUE, code |-> SubSeq(t1, 1, 3) \o <<"-">> \o t2, n |-> 2]
        ELSE none

\* C4: Fuvest code reconstruction.  For a CPF token followed by a code written
\* as NNN-NN, or split as NNN + -NN, NNN-N + N or NNN- + NN, with an ASCII
\* hyphen or a Unicode minus, _consume_code returns the ASCII-hyphen code and
\* consumes exactly the code's tokens; and the page "BIA 123.456 109 -21" with
\* 109-21 in the table yields exactly one record with the row's fields.
C4_Claimed_CodeReconstructed ==
    (parser = "fuvest" /\ pc # "read") =>
        /\ \A i \in 1..(Len(ctx.tokens) - 1) :
               (CpfMatch(ctx.tokens[i]) /\ CodeShapeAt(ctx.tokens, i + 1).ok) =>
                   ConsumeCode(ctx.tokens, i + 1) =
                       [code |-> [ok |-> TRUE, code |-> CodeShapeAt(ctx.tokens, i + 1).code],
                        consumed |-> CodeShapeAt(ctx.tokens, i + 1).n]
        /\ (pc = "done" /\ doc = <<F_SplitA>> /\ Code10921 \in DOMAIN dimension) =>
               deduped = <<Rec(W_Bia, W_Medicina, W_B, W_Integral)>>

\* C5: UFSCar.  A candidate line under a course header of exactly three
\* dash-separated segments appends one record: nome from the line, curso,
\* tipo and periodo the header's first, second and third segment ("Direito -
\* Bacharelado - Integral" then "01**1234567 JOAO DA SILVA AC 750" returns
\* exactly that one record); a candidate line before any header appends
\* nothing.
C5_UfscarThreeSegmentHeader ==
    /\ [][(parser = "ufscar" /\ pc = "scan" /\ idx <= Len(doc)
             /\ UfscarRowMatch(CleanSpaces(doc[idx]))) =>
            LET segs == SplitOn(ctx.current_course, DashSep)
            IN  /\ ctx.current_course = <<>> => records' = records
                /\ (ctx.current_course # <<>> /\ Len(segs) = 3) =>
                       records' = Append(records,
                           Rec(CleanSpaces(UfscarRowNome(CleanSpaces(doc[idx]))),
                               CleanSpaces(segs[1]), CleanSpaces(segs[2]),
                               CleanSpaces(segs[3])))]_vars
    /\ []((parser = "ufscar" /\ pc = "done" /\ doc = <<U_Header3, U_Row1>>) =>
             deduped = <<Rec(W_JoaoDaSilva, W_Direito, W_Bacharelado, W_Integral)>>)
    /\ []((parser = "ufscar" /\ pc = "done" /\ doc = <<U_Row1>>) => deduped = <<>>)

\* The same candidate line before any header and under a three-segment
\* header: only the second one is returned.
C5_Witness ==
    /\ parser = "ufscar" /\ pc = "done"
    /\ doc = <<U_Row1, U_Header3, U_Row1>>
    /\ records = <<Rec(W_JoaoDaSilva, W_Direito, W_Bacharelado, W_Integral)>>
    /\ deduped = records

\* C6: UFSCar campus filter.  A record is appended only under a current
\* header with fewer than four segments or with a campus segment (segments
\* 4+ joined with " - ") that mentions Sao Carlos; a candidate under a
\* "Campus Ribeirao Preto" header returns nothing, and a later Sao Carlos
\* header lets the candidate through again.
C6_UfscarCampusFilter ==
    /\ [][(parser = "ufscar" /\ records' # records) =>
            LET raw == SplitOn(ctx.current_course, DashSep)
                segs == [k \in 1..Len(raw) |-> CleanSpaces(raw[k])]
            IN  /\ ctx.current_course # <<>>
                /\ \/ Len(segs) < 4
                   \/ UfscarIsSaoCarlosCampus(JoinWith(SubSeq(segs, 4, Len(segs)), DashSep))]_vars
    /\ []((parser = "ufscar" /\ pc = "done" /\ doc = <<U_HeaderRP, U_Row1>>) =>
             deduped = <<>>)
    /\ []((parser = "ufscar" /\ pc = "done" /\ doc = <<U_HeaderRP, U_Row1, U_HeaderSC, U_Row1>>) =>
             deduped = <<Rec(W_JoaoDaSilva, W_Fisica, W_Bacharelado, W_Integral)>>)

\* The candidate was dropped under the Ribeirao Preto header and returned
\* under the later Sao Carlos header.
C6_Witness ==
    /\ parser = "ufscar" /\ pc = "done"
    /\ doc = <<U_HeaderRP, U_Row1, U_HeaderSC, U_Row1>>
    /\ Len(deduped) = 1

-----------------------------------------------------------------------------
(* Properties of the dimension table loader.                               *)

Loadable(res) ==
    /\ res.exists
    /\ \A i \in 1..Len(res.rows) :
          LET row == res.rows[i]
          IN  /\ ~RowGet(row, "CODIGO").isNone
              /\ StrStrip(RowGet(row, "CODIGO").s) # <<>> =>
                     \A c \in {"CURSO", "TIPO", "PERIODO"} : ~RowGet(row, c).isNone

\* C14 (as claimed): when threads call _load_dimension_map concurrently
\* while the cache is unset, at most one of them reads and parses the file.
C14_Claimed_NoDuplicateLoad ==
    Loadable(resource) => reads <= 1 /\ loads <= 1

\* The stripped code of row i, <<>> when the row has none.
RowCode(res, i) == StrStrip(RowGet(res.rows[i], "CODIGO").s)

\* The table a loadable file denotes: every non-empty code of the file,
\* mapped to the stripped fields of the last row that carries it.
FullTable(res) ==
    LET Codes == {RowCode(res, i) : i \in 1..Len(res.rows)} \ {<<>>}
        Last(c) == CHOOSE i \in 1..Len(res.rows) :
                       /\ RowCode(res, i) = c
                       /\ \A j \in (i + 1)..Len(res.rows) : RowCode(res, j) # c
    IN  [c \in Codes |->
            [curso |-> StrStrip(RowGet(res.rows[Last(c)], "CURSO").s),
             tipo |-> StrStrip(RowGet(res.rows[Last(c)], "TIPO").s),
             periodo |-> StrStrip(RowGet(res.rows[Last(c)], "PERIODO").s)]]

\* C15: in every interleaving the module-level cache is unset or holds the
\* table of the whole file, a caller is only ever returned that whole table,
\* and a cache that is set never changes its contents.
C15_NoPartialTable ==
    /\ [](cache.set => Loadable(resource) /\ cache.table = FullTable(resource))
    /\ [](\A t \in Threads :
             thr[t].pc = "returned" => thr[t].ret = FullTable(resource))
    /\ [][cache.set => cache' = cache]_vars

\* One thread has returned the table and set the cache while the other is
\* half way through its own parse of the file.
C15_Witness ==
    /\ resource = ResourceDuplicate
    /\ thr["t1"].pc = "returned" /\ cache.set
    /\ thr["t2"].pc = "rows" /\ thr["t2"].k = 2
    /\ thr["t2"].mapping # cache.table

\* C16: with the file missing _load_dimension_map raises, a Fuvest
\* extraction that made the call fails with it instead of returning records,
\* and the cache stays unset, so that the next call opens the file again.
C16_MissingResourceRaises ==
    /\ [](~resource.exists =>
             /\ ~cache.set
             /\ \A t \in Threads :
                    /\ thr[t].pc # "returned" /\ thr[t].extract # "loaded"
                    /\ thr[t].pc = "raised" =>
                           /\ thr[t].exc = "FileNotFoundError"
                           /\ thr[t].via = "extract" => thr[t].extract = "raised")
    /\ [][\A t \in Threads :
             (~resource.exists /\ thr[t].pc = "check" /\ thr'[t] # thr[t]) =>
                 thr'[t].pc = "open"]_vars

\* A Fuvest extraction has failed on the missing file for the second time.
C16_Witness ==
    /\ ~resource.exists
    /\ \E t \in Threads :
           /\ thr[t].calls = 2 /\ thr[t].pc = "raised"
           /\ thr[t].via = "extract" /\ thr[t].extract = "raised"

\* A file that exists but has a row without CODIGO column, with an empty
\* CODIGO, or without one of the CURSO, TIPO, PERIODO fields.
Malformed(res) ==
    /\ res.exists
    /\ \E i \in 1..Len(res.rows) :
          LET row == res.rows[i]
          IN  \/ "CODIGO" \notin DOMAIN row
              \/ row["CODIGO"].isNone
              \/ StrStrip(row["CODIGO"].s) = <<>>
              \/ \E c \in {"CURSO", "TIPO", "PERIODO"} :
                     c \notin DOMAIN row \/ row[c].isNone

\* C17 (as claimed): on a malformed file _load_dimension_map fails with an
\* error instead of returning a table.
C17_Claimed_MalformedFailsLoudly ==
    Malformed(resource) =>
        /\ ~cache.set
        /\ \A t \in Threads : thr[t].pc # "returned"

\* C18: when several rows of the file carry the same CODIGO, the loaded
\* table maps the code to the values of the last of them in file order.
C18_LastRowWins ==
    \A t \in Threads :
        thr[t].pc = "returned" =>
            \A i \in 1..Len(resource.rows) :
                (/\ RowCode(resource, i) # <<>>
                 /\ \A j \in (i + 1)..Len(resource.rows) :
                        RowCode(resource, j) # RowCode(resource, i))
                => /\ RowCode(resource, i) \in DOMAIN thr[t].ret
                   /\ thr[t].ret[RowCode(resource, i)].tipo =
                          StrStrip(RowGet(resource.rows[i], "TIPO").s)
                   /\ thr[t].ret[RowCode(resource, i)].periodo =
                          StrStrip(RowGet(resource.rows[i], "PERIODO").s)
                   /\ thr[t].ret[RowCode(resource, i)].curso =
                          StrStrip(RowGet(resource.rows[i], "CURSO").s)

\* The file lists 109-21 twice, first as (B, Integral) and last as
\* (L, Noturno): the returned table has the last.
C18_Witness ==
    /\ resource = ResourceDuplicate
    /\ \E t \in Threads :
           /\ thr[t].pc = "returned"
           /\ thr[t].ret[Code10921] = [curso |-> W_Medicina, tipo |-> W_L, periodo |-> W_Noturno]

-----------------------------------------------------------------------------
(* Properties of the Provao extractor.                                     *)

\* The records the legacy scan emits on a page, line by line.
RECURSIVE LegacyScan(_, _, _)
LegacyScan(lines, name, course) ==
    IF lines = <<>> THEN <<>>
    ELSE LET r == LegacyLine(Head(lines), name, course)
         IN  r.emit \o LegacyScan(Tail(lines), r.current_name, r.current_course)

RECURSIVE SeqToSet(_)
SeqToSet(s) == IF s = <<>> THEN {} ELSE {Head(s)} \cup SeqToSet(Tail(s))

\* C19: Provao format fallback.  The legacy scan runs over the same page if
\* and only if the current-format pass, after its USP and Sao Carlos
\* filters, produced no record; when it produced one, the records are those
\* of the current format and no record of the legacy grammar is returned.
C19_LegacyOnlyWhenCurrentFormatEmpty ==
    /\ [][(parser = "provao" /\ ctx.phase = "new" /\ ctx'.phase # "new") =>
            /\ ctx'.phase = "legacy" <=> NewFormatRecords(ctx'.rows) = <<>>
            /\ ctx'.phase = "finished" <=> NewFormatRecords(ctx'.rows) # <<>>]_vars
    /\ []((parser = "provao" /\ pc = "done" /\ ctx.phase = "legacy") =>
             records = LegacyScan(doc, NoName, NoCourse))
    /\ []((parser = "provao" /\ pc = "done" /\ ctx.phase = "finished") =>
             /\ records = NewFormatRecords(ctx.rows)
             /\ SeqToSet(deduped) \cap SeqToSet(LegacyScan(doc, NoName, NoCourse)) = {})

\* The page holds a current-format row that is kept and a complete legacy
\* candidate: only the current-format record is returned.
C19_Witness ==
    /\ parser = "provao" /\ pc = "done"
    /\ doc = <<P_RowSC, P_Name, P_Course, P_CampusSC>>
    /\ LegacyScan(doc, NoName, NoCourse) # <<>>
    /\ deduped = <<Rec(W_AnaLima, W_Fisica, W_Licenciatura, W_Noturno)>>

\* The institution segment of a reconstructed row: its course blob up to the
\* first " - ".
InstitutionSegment(row) == SplitOn(NewRowMatch(row).curso_blob, DashSep)[1]

\* C20 (as claimed): a reconstructed row gives a record only if the first
\* segment of its course blob is "USP" in exactly this case and the blob
\* mentions Sao Carlos.
C20_Claimed_UspCaseSensitive ==
    (parser = "provao" /\ pc = "done") =>
        \A k \in 1..Len(ctx.rows) :
            NewFormatRecord(ctx.rows[k]) # <<>> =>
                /\ InstitutionSegment(ctx.rows[k]) = W_USP
                /\ ProvaoIsSaoCarlosCampus(NewRowMatch(ctx.rows[k]).curso_blob)

\* C20 (amended): the first segment is compared after upper-casing, so a
\* reconstructed row gives a record if and only if its first segment is
\* "USP" in any case ("usp" and "Usp" included), its blob mentions Sao
\* Carlos, and it has a name and a course.
C20_UspAnyCase ==
    (parser = "provao" /\ pc = "done") =>
        \A k \in 1..Len(ctx.rows) :
            LET row == ctx.rows[k]
                blob == NewRowMatch(row).curso_blob
            IN  NewFormatRecord(row) # <<>> <=>
                    /\ StrLower(InstitutionSegment(row)) = W_uspLower
                    /\ ProvaoIsSaoCarlosCampus(blob)
                    /\ StrStrip(Replace(NewRowMatch(row).nome, "*", <<>>)) # <<>>
                    /\ SplitCourseBlob(blob).curso # <<>>

\* The row whose institution is written "Usp" is returned.
C20_Witness ==
    /\ parser = "provao" /\ pc = "done"
    /\ doc = <<P_RowUsp>>
    /\ deduped = <<Rec(W_Bia, W_Letras, W_Bacharelado, W_Diurno)>>

-----------------------------------------------------------------------------
(* Properties of _split_course_blob.                                       *)

\* The non-empty segments the blob was written from.
BlobParts(a) == SelectSeq(a.segs, LAMBDA p : p # <<>>)

\* The course text a (curso, tipo) pair was cut from: the degree type is
\* the trailing parenthesized suffix.
CourseText(v) ==
    IF v.tipo = <<>> THEN v.curso
    ELSE v.curso \o <<" ", "(">> \o v.tipo \o <<")">>

\* C21 (as claimed): on the non-empty segments of a blob, with four or more
\* the period is the second-to-last and the course is segments[2:-2] joined
\* with " - "; with exactly three the course is segment 1 and the period
\* segment 2; with fewer the remaining text is the course and the period is
\* empty; the degree type is the trailing parenthesized suffix of the course.
C21_Claimed_SplitBySegmentCount ==
    (arg.kind = "blob" /\ ret.done) =>
        LET parts == BlobParts(arg)
            n == Len(parts)
        IN  /\ n >= 4 => /\ ret.v.periodo = parts[n - 1]
                         /\ CourseText(ret.v) = JoinWith(SubSeq(parts, 3, n - 2), DashSep)
            /\ n = 3 => /\ ret.v.periodo = parts[3]
                        /\ CourseText(ret.v) = parts[2]
            /\ n \in 1..2 => /\ ret.v.periodo = <<>>
                             /\ CourseText(ret.v) = JoinWith(SubSeq(parts, 2, n), DashSep)

\* What _split_course_blob does: the claimed cases hold from five segments
\* on; with exactly four segments the course is cut from segment 2, the same
\* segment that is returned as the period.
SplitCourseBlobCases ==
    (arg.kind = "blob" /\ ret.done) =>
        LET parts == BlobParts(arg)
            n == Len(parts)
        IN  /\ n >= 5 => /\ ret.v.periodo = parts[n - 1]
                         /\ CourseText(ret.v) = JoinWith(SubSeq(parts, 3, n - 2), DashSep)
            /\ n = 4 => /\ ret.v.periodo = parts[3]
                        /\ CourseText(ret.v) = parts[3]
            /\ n = 3 => /\ ret.v.periodo = parts[3]
                        /\ CourseText(ret.v) = parts[2]
            /\ n \in 1..2 => /\ ret.v.periodo = <<>>
                             /\ CourseText(ret.v) = JoinWith(SubSeq(parts, 2, n), DashSep)

-----------------------------------------------------------------------------
(* Properties of the Provao row reconstruction and legacy scan.            *)

\* C22 (as claimed): a row wrapped over two lines, the first holding the
\* name, the masked id, the group letter and the beginning of the course
\* blob, the second the rest of the blob, is rebuilt from both lines, and
\* the rebuilt row is the one that is filtered and split.
C22_Claimed_WrappedRowRebuilt ==
    (parser = "provao" /\ pc = "done") =>
        \A i \in 1..(Len(doc) - 1) :
            (doc[i] = P_RowHead /\ doc[i + 1] = P_RowTail) =>
                /\ \E k \in 1..Len(ctx.rows) :
                      ctx.rows[k] = P_RowHead \o <<" ">> \o P_RowTail
                /\ \E k \in 1..Len(deduped) :
                      deduped[k] = Rec(W_Caio, W_Fisica, W_Licenciatura, W_Noturno)

\* The cleaned line the legacy scan is about to read.
LegacyCurrentLine == ProvaoCleanSpaces(doc[idx])

\* Noise of the legacy format: a bare N/M position, a line starting with
\* "Provao Paulista" or "Processamento", a line containing "Lista de Espera".
IsLegacyNoise(line) ==
    \/ PositionMatch(line)
    \/ StartsWith(line, W_ProvaoPaulista)
    \/ StartsWith(line, W_Processamento)
    \/ Contains(line, W_ListaDeEspera)

\* A line starting with "Campus", in any letter case.
IsCampusLine(line) == StartsWith(StrLower(line), W_CampusLower)

\* C23: in the legacy scan a record is emitted only on a line starting with
\* "Campus", only if a name and a course are pending and the line mentions
\* Sao Carlos, and it is made of the pending name and course; after every
\* Campus line both are cleared, whether or not a record was emitted; a
\* noise line changes neither the pending name and course nor the records.
C23_LegacyEmitsOnCampusLineOnly ==
    [][(parser = "provao" /\ pc = "scan" /\ ctx.phase = "legacy" /\ idx <= Len(doc)) =>
         /\ records' # records =>
               /\ IsCampusLine(LegacyCurrentLine)
               /\ ctx.current_name.ok /\ ctx.current_course.ok
               /\ ProvaoIsSaoCarlosCampus(LegacyCurrentLine)
               /\ records' = Append(records,
                      Rec(ctx.current_name.nome, ctx.current_course.curso,
                          ctx.current_course.tipo, ctx.current_course.periodo))
         /\ (IsCampusLine(LegacyCurrentLine) /\ ~IsLegacyNoise(LegacyCurrentLine)) =>
               /\ ctx'.current_name = NoName
               /\ ctx'.current_course = NoCourse
         /\ IsLegacyNoise(LegacyCurrentLine) =>
               /\ ctx'.current_name = ctx.current_name
               /\ ctx'.current_course = ctx.current_course
               /\ records' = records]_vars

\* A name and a course are pending, a noise line follows, then a Campus line
\* of Sao Carlos: the record of the pending name and course is emitted there
\* and both are cleared.
C23_Witness ==
    /\ parser = "provao" /\ pc = "done" /\ ctx.phase = "legacy"
    /\ doc = <<P_Name, P_Course, N_ListaEspera, P_CampusSC>>
    /\ ctx.current_name = NoName /\ ctx.current_course = NoCourse
    /\ deduped = <<Rec(W_JoaoDaSilva, W_EngenhariaCivil, W_Bacharelado, W_Integral)>>

-----------------------------------------------------------------------------
(* Properties of the IFSP and ENEM-USP scans.                              *)

\* The header context a header line sets.
IfspHeaderContext(line) ==
    LET h == IfspHeaderMatch(line)
    IN  [curso |-> CleanSpaces(h.curso), tipo |-> CleanSpaces(h.tipo),
         periodo |-> CleanSpaces(h.periodo)]

\* C24 (as claimed): the IFSP header context is replaced by every header
\* line and left alone by every other line, and a record is emitted only
\* with a header context and carries its course, degree type and period: so
\* every record carries those of the most recent header line before it, and
\* none is emitted before the first header.
C24_Claimed_MostRecentHeader ==
    [][(parser = "ifsp" /\ pc = "scan" /\ idx <= Len(doc)) =>
         LET line == CleanSpaces(doc[idx])
         IN  /\ IfspHeaderMatch(line).ok => ctx' = IfspHeaderContext(line)
             /\ ~IfspHeaderMatch(line).ok => ctx' = ctx
             /\ records' # records =>
                   /\ ctx.curso # <<>>
                   /\ \E nome \in {IfspCandidateMatch(line).nome} :
                         records' = Append(records,
                             Rec(CleanSpaces(nome), ctx.curso, ctx.tipo, ctx.periodo))]_vars

\* The course header in force after the first i lines of the page (0: none)
\* and the institution/location label seen since it (empty: none): a header
\* or skip line is neither, a course line is a header, and any other line
\* containing "usp" is a label.
RECURSIVE EnemContextAfter(_)
EnemContextAfter(i) ==
    IF i = 0 THEN [header |-> 0, label |-> <<>>]
    ELSE LET prev == EnemContextAfter(i - 1)
             line == CleanSpaces(doc[i])
         IN  IF line = <<>> \/ EnemHeaderSkipMatch(line) THEN prev
             ELSE IF EnemCourseMatch(line).ok THEN [header |-> i, label |-> <<>>]
             ELSE IF LooksLikeInstitutionLine(line) THEN [prev EXCEPT !.label = line]
             ELSE prev

\* C25: an ENEM-USP record is emitted only on a candidate line, only when a
\* course header precedes it and the most recent label seen since that
\* header mentions Sao Carlos (a header clears the label, so candidates
\* between a header and the next line containing "usp" emit nothing), and it
\* carries that header's course; header, skip and institution lines never
\* emit.
C25_EnemEmitsUnderSaoCarlosLabel ==
    [][(parser = "enem_usp" /\ pc = "scan" /\ idx <= Len(doc)) =>
         LET line == CleanSpaces(doc[idx])
             before == EnemContextAfter(idx - 1)
         IN  /\ records' # records =>
                   /\ EnemCandidateMatch(line).ok
                   /\ before.header # 0
                   /\ EnemIsSaoCarlosCampus(before.label)
                   /\ LET h == EnemCourseMatch(CleanSpaces(doc[before.header]))
                      IN  records' = Append(records,
                              Rec(CleanSpaces(EnemCandidateMatch(line).nome),
                                  CleanSpaces(h.curso), CleanSpaces(h.tipo),
                                  CleanSpaces(h.periodo)))
             /\ (EnemHeaderSkipMatch(line) \/ EnemCourseMatch(line).ok
                    \/ LooksLikeInstitutionLine(line)) => records' = records]_vars

\* A course header, a Sao Carlos label, a candidate: the candidate is
\* returned with the header's course.
C25_Witness ==
    /\ parser = "enem_usp" /\ pc = "done"
    /\ doc = <<E_Course1, E_InstSC, E_Cand1>>
    /\ deduped = <<Rec(W_JoaoDaSilva, W_EngenhariaCivil, W_Bacharelado, W_Integral)>>

-----------------------------------------------------------------------------
(* Properties of the Sao Carlos location predicates.                       *)

\* The text names Sao Carlos, its "a" plain or with a tilde in any form.
NamesSaoCarlos(a) ==
    /\ a.a # <<a_acu>>
    /\ StrLower(a.ending) \in { <<"o"," ","c","a","r","l","o","s">>,
                                <<"o"," "," ","c","a","r","l","o","s">> }

\* C26 (as claimed): the predicates of the UFSCar, ENEM-USP and Provao
\* extractors return the same answer on every text, and every spelling of
\* Sao Carlos matches, whatever its letter case and whether its tilde is
\* absent, precomposed or a combining mark.
C26_Claimed_SamePredicateEverywhere ==
    (arg.kind = "text" /\ ret.done) =>
        /\ ret.v.ufscar = ret.v.provao
        /\ ret.v.enem_usp = ret.v.provao
        /\ NamesSaoCarlos(arg) => (ret.v.ufscar /\ ret.v.enem_usp /\ ret.v.provao)

-----------------------------------------------------------------------------
(* Properties of repeated extraction.                                      *)

\* C27: the second call of an extractor on the same page text returns the
\* list the first call returned, in the same order; for the Fuvest extractor
\* the first call has read the dimension file and set the cache, and the
\* second call works on the cached table without reading the file again.
C27_SecondCallReturnsSameList ==
    (pc = "done" /\ call = 2) =>
        /\ deduped = firstOut
        /\ parser = "fuvest" => (cache.set /\ dimension = cache.table /\ reads = 1)

\* The Fuvest extractor has returned a record twice, the second time from
\* the cached table.
C27_Witness ==
    /\ parser = "fuvest" /\ pc = "done" /\ call = 2
    /\ firstOut # <<>> /\ deduped = firstOut
    /\ reads = 1

-----------------------------------------------------------------------------
(* Properties of the database steps of process_job.                        *)

\* The rows of leads_raw of one Nome, and its silver rows.
RawOf(n) == {r \in leads_raw : r.Nome = n}
SilverOf(silver, n) == {s \in silver : s.Nome = n}
\* The raw rows of a Nome with the greatest created_at.
NewestRawOf(n) == {r \in RawOf(n) : \A q \in RawOf(n) : r.created_at >= q.created_at}

\* C28: when the MERGE of raw into silver has run, leads_silver holds
\* exactly one row for every Nome of leads_raw; and where the newest raw rows
\* of a Nome (greatest created_at, over all Faculdade and Ano) were newer than
\* the silver row there was before, the silver row is such a newest raw row,
\* with its Ano, Faculdade, Curso, Tipo, Periodo and created_at.
C28_MergeKeepsNewestPerNome ==
    [][\A w \in Workers : MergeRawToSilver(w) =>
          \A n \in NomesOf(leads_raw) :
             /\ Cardinality(SilverOf(leads_silver', n)) = 1
             /\ (\A t \in SilverOf(leads_silver, n) :
                   \A r \in NewestRawOf(n) : r.created_at > t.created_at)
                => SilverOf(leads_silver', n) \subseteq NewestRawOf(n)]_vars

\* The MERGE has run over two raw rows of one candidate, from different
\* institutions and with different courses, and silver holds the newer one.
C28_Witness ==
    /\ job["w1"].stage = "merged"
    /\ \E r \in leads_raw, q \in leads_raw :
          /\ r.Nome = q.Nome /\ r.Faculdade # q.Faculdade /\ r.Curso # q.Curso
          /\ r.created_at > q.created_at
          /\ r \in leads_silver

\* The rows of dimension_lead of one nome.
DimensionOf(dim, n) == {d \in dim : d.nome = n}

\* C29: when the upsert of silver into the dimension has run, every Nome of
\* leads_silver has exactly one dimension_lead row, which carries a lead_id
\* no other row has; and the current status the CRM query returns for a lead
\* with events is the status of an event of that lead with the greatest
\* changed_at.
C29_UpsertLinksEveryLead ==
    [][/\ \A w \in Workers : UpsertSilverToDimension(w) =>
             /\ \A s \in leads_silver :
                   /\ Cardinality(DimensionOf(dimension_lead', s.Nome)) = 1
                   /\ \A d \in DimensionOf(dimension_lead', s.Nome) : d.lead_id >= 1
             /\ \A d \in dimension_lead', e \in dimension_lead' :
                   d.lead_id = e.lead_id => d = e
       /\ (SelectCurrentStatus /\ EventsOf(fact_crm, view'.lead_id) # {}) =>
             \E e \in EventsOf(fact_crm, view'.lead_id) :
                /\ e.status = view'.current_status
                /\ \A y \in EventsOf(fact_crm, view'.lead_id) : y.changed_at <= e.changed_at
      ]_vars

\* The upsert has run with both candidates in silver, and the query has
\* returned the later status of a lead that was seeded and then contacted.
C29_Witness ==
    /\ job["w1"].stage = "upserted"
    /\ Cardinality(leads_silver) = 2 /\ Cardinality(dimension_lead) = 2
    /\ view # <<>>
    /\ view.current_status = "contatado"
    /\ \E e \in EventsOf(fact_crm, view.lead_id), y \in EventsOf(fact_crm, view.lead_id) :
          /\ e.status = "contatado" /\ y.status = "Novo"
          /\ y.changed_at < e.changed_at

\* The rows a step has appended to fact_crm.
AppendedRows == {fact_crm'[i] : i \in (Len(fact_crm) + 1)..Len(fact_crm')}

\* C30: the seed step leaves every row fact_crm had in place and unchanged;
\* it appends exactly one event, 'Novo' changed by 'pipeline', for every
\* dimension_lead without events and none for any other lead; afterwards
\* every dimension_lead has an event, and the same statement run again
\* selects no lead.
C30_SeedKeepsCrmHistory ==
    [][\A w \in Workers : SeedFactCrm(w) =>
          /\ Len(fact_crm') >= Len(fact_crm)
          /\ SubSeq(fact_crm', 1, Len(fact_crm)) = fact_crm
          /\ \A r \in AppendedRows :
                /\ r.status = "Novo" /\ r.changed_by = "pipeline"
                /\ \E d \in dimension_lead : d.lead_id = r.lead_id
                /\ EventsOf(fact_crm, r.lead_id) = {}
          /\ \A d \in dimension_lead :
                /\ EventsOf(fact_crm, d.lead_id) = {} =>
                      Cardinality({i \in (Len(fact_crm) + 1)..Len(fact_crm') :
                                      fact_crm'[i].lead_id = d.lead_id}) = 1
                /\ EventsOf(fact_crm', d.lead_id) # {}
          /\ \A t \in 1..MaxClock :
                Appended(fact_crm', SeedLeads(dimension_lead', fact_crm'), t) = fact_crm'
      ]_vars

\* The seed step has run over a lead the CRM had already contacted and a
\* lead without events: the first kept its history, the second got 'Novo'.
C30_Witness ==
    /\ job["w1"].stage = "seeded"
    /\ \E a \in dimension_lead, b \in dimension_lead :
          /\ EventsOf(fact_crm, a.lead_id) # {}
          /\ \A e \in EventsOf(fact_crm, a.lead_id) : e.status = "contatado"
          /\ Cardinality(EventsOf(fact_crm, b.lead_id)) = 1
          /\ \A e \in EventsOf(fact_crm, b.lead_id) :
                e.status = "Novo" /\ e.changed_by = "pipeline"

-----------------------------------------------------------------------------
(* Properties of the extractors' handling of malformed and ambiguous lines. *)

\* C31 (as claimed): a code that cannot be reconstructed costs only its own
\* candidate: no token of the failed code passes into the name of the next
\* candidate, so the nome of every record the Fuvest extractor emits is made
\* of name tokens only and holds neither a digit nor a dash.
C31_Claimed_FailedCodeStaysOutOfNames ==
    (parser = "fuvest" /\ pc = "done") =>
        \A i \in 1..Len(records) :
            \A k \in 1..Len(records[i].nome) :
                ~IsDigit(records[i].nome[k]) /\ ~IsDash(records[i].nome[k])

\* C32 (as claimed): every line of the candidate pattern is read as a
\* candidate, also when its name holds the letters "usp": it leaves the
\* institution label as it is, and under a course header and a Sao Carlos
\* label it appends one record.
C32_Claimed_CandidateLineNeverLabel ==
    [][(/\ parser = "enem_usp" /\ pc = "scan" /\ idx <= Len(doc)
        /\ EnemCandidateMatch(CleanSpaces(doc[idx])).ok) =>
          /\ ctx'.current_institution = ctx.current_institution
          /\ (ctx.current_course.ok /\ EnemIsSaoCarlosCampus(ctx.current_institution)) =>
                Len(records') = Len(records) + 1]_vars

\* Line j of the page is read as a name line, line k as a course line, of
\* the legacy format.
IsLegacyNameAt(j) ==
    LET line == ProvaoCleanSpaces(doc[j])
    IN  line # <<>> /\ ~IsLegacyNoise(line) /\ NameLineMatch(line).ok
IsLegacyCourseAt(k) ==
    LET line == ProvaoCleanSpaces(doc[k])
    IN  /\ line # <<>> /\ ~IsLegacyNoise(line) /\ ~NameLineMatch(line).ok
        /\ LegacyCourseMatch(line).ok

\* C33 (as claimed): a record of the legacy scan pairs the name of the last
\* name line before its Campus line with a course line that stands between
\* that name line and the Campus line; a course read before the name line,
\* left by an earlier candidate, is never used.
C33_Claimed_CourseFollowsItsName ==
    [][(/\ parser = "provao" /\ pc = "scan" /\ ctx.phase = "legacy"
        /\ idx <= Len(doc) /\ records' # records) =>
          \E j \in 1..(idx - 1) :
             /\ IsLegacyNameAt(j)
             /\ \A i \in (j + 1)..(idx - 1) : ~IsLegacyNameAt(i)
             /\ \E k \in (j + 1)..(idx - 1) :
                   /\ IsLegacyCourseAt(k)
                   /\ records'[Len(records')].curso = ctx.current_course.curso
                   /\ \A i \in (k + 1)..(idx - 1) : ~IsLegacyCourseAt(i)]_vars

\* process_job returns to the loop of its caller: worker w leaves the steps
\* of the job with id i, or step 1 itself raised.
ProcessJobReturns(w) ==
    \/ job[w].stage \in InProcess /\ job'[w].stage \notin InProcess
    \/ job[w].stage = "loop" /\ job'[w].stage = "loop" /\ job'[w] # job[w]
EndsFailed(i) ==
    \/ imports'[i].status = "failed" /\ imports'[i].error # NULL
    \/ imports' = imports

Fetched(q) == {q[k] : k \in 1..Len(q)}

\* C36 (as claimed): a run fetches exactly the jobs whose status is
\* 'queued_parse', 'pending' or 'failed' at that moment, and process_job is
\* never started on a job that is 'completed' or 'parsing'.
C36_Claimed_CompletedNeverProcessedAgain ==
    [][\A w \in Workers :
        /\ (job[w].stage = "idle" /\ job'[w].stage = "loop") =>
              Fetched(job'[w].queue) =
                 {i \in JobIds : imports[i].status \in {"queued_parse", "pending", "failed"}}
        /\ (job[w].stage = "loop" /\ job'[w].stage = "started") =>
              imports[job'[w].id].status \notin {"completed", "parsing"}]_vars

\* C37 (as claimed): no job is inside process_job on two workers at once.
C37_Claimed_NoJobOnTwoWorkers ==
    \A v, w \in Workers :
        (v # w /\ job[v].stage \in InProcess /\ job[w].stage \in InProcess) =>
            job[v].id # job[w].id

\* C38: the insert of a job's batch leaves every row leads_raw already has
\* as it is, created_at included, and reports the size of the batch as
\* inserted; when all keys of the batch are present, as they are once the
\* job's batch was inserted before, leads_raw does not change at all.
C38_ReinsertChangesNothing ==
    [][\A w \in Workers :
        (job[w].stage = "parsed" /\ job'[w].stage = "inserted") =>
            /\ leads_raw \subseteq leads_raw'
            /\ job'[w].inserted = Len(job[w].records)
            /\ (\A k \in 1..Len(job[w].records) :
                   \E q \in leads_raw :
                      /\ q.Faculdade = processo_faculdade_map(job[w].Faculdade)
                      /\ q.Ano = job[w].Ano
                      /\ q.Nome = job[w].records[k].nome) =>
                  leads_raw' = leads_raw]_vars
C38_Witness ==
    /\ job["w1"].stage = "inserted" /\ job["w1"].id = 1 /\ job["w1"].inserted = 1
    /\ imports[1].attempts = 2
    /\ clock = 2
    /\ \E r \in leads_raw : r.Faculdade = "UFSCar" /\ r.Nome = "ANA LIMA" /\ r.created_at = 1

\* C39: the upsert changes a row dimension_lead already has only when
\* leads_silver holds a row of the same nome and the dimension row's
\* source_silver_created_at is NULL or older than that row's created_at;
\* and a responsavel_nome that is not NULL stays as it is.
C39_UpsertFrame ==
    [][(job["w1"].stage = "merged" /\ job'["w1"].stage = "upserted") =>
        \A d \in dimension_lead :
           \E d2 \in dimension_lead' :
              /\ d2.lead_id = d.lead_id
              /\ d2 # d =>
                    \E s \in leads_silver :
                       /\ s.Nome = d.nome
                       /\ \/ d.source_silver_created_at = NullTime
                          \/ d.source_silver_created_at < s.created_at
              /\ d.responsavel_nome # NULL => d2.responsavel_nome = d.responsavel_nome]_vars
C39_Witness ==
    /\ job["w1"].stage = "upserted"
    /\ \E d \in dimension_lead :
          /\ d.nome = "ANA LIMA" /\ d.Curso = "Direito" /\ d.responsavel_nome = "DANI"
          /\ d.source_silver_created_at = MaxClock
====
